---- MODULE Spec2Model ----
(***************************************************************************)
(* KC705 MobileNetV3 PCIe driver (kc705_mobilenet_driver.c): the device   *)
(* lifecycle (open / close), the register access layer and the image      *)
(* upload transports, as a state machine over the process' heap, its      *)
(* descriptors and mappings, and the memory of the PCIe devices.          *)
(*                                                                         *)
(* Every API call is one action.  Where the C code has undefined          *)
(* behaviour (a read of released memory, an access outside a mapping, a   *)
(* dereference of MAP_FAILED) the action chooses among the outcomes a     *)
(* build can produce and records the event in last.ub.  The C standard     *)
(* places no requirement on a program after undefined behaviour, so a run *)
(* is followed up to and including its first undefined operation.         *)
(***************************************************************************)
EXTENDS Integers, Sequences, FiniteSets, TLC

\* ---------------------------------------------------------------- bounds
MaxHandles == 2      \* heap addresses malloc can return for a handle
MaxMaps    == 3      \* addresses mmap can return
MaxFds     == 2      \* descriptors the process may hold at once
MaxDevices == 1      \* devices a discovery run may report (at most KC705_MAX_DEVICES)
MaxSize    == 2      \* largest small image size the caller tries

\* ------------------------------------------------------ program constants
KC705_MAX_DEVICES   == 8
KC705_IMAGE_BASE    == 4096      \* 0x1000
KC705_RESULT_BASE   == 8192      \* 0x2000
REG_CONTROL         == 0
REG_STATUS          == 4
REG_IMAGE_SIZE      == 12
CTRL_START          == 1
CTRL_IRQ_EN         == 4
STAT_DONE           == 1
STAT_LINK_UP        == 8
KC705_SUCCESS       == 0
KC705_ERROR         == -1
KC705_TIMEOUT       == -2
KC705_NO_DEVICE     == -3
KC705_INVALID_PARAM == -4
REG_WINDOW_SIZE     == 4096      \* length of the BAR0 mapping
MEM_WINDOW_SIZE     == 65536     \* length of the BAR1 mapping
UPLOAD_LIMIT        == 4096      \* "4KB buffer limit" of kc705_upload_image
IMAGE_SIZE          == 150528    \* 224 * 224 * 3

NULL       == 0
MAP_FAILED == -1

Handles == 1..MaxHandles
Addrs   == 1..MaxMaps
Fds     == 3..(2 + MaxFds)
DevIdx  == 0..(MaxDevices - 1)

Min(S) == CHOOSE x \in S : \A y \in S : x <= y

VARIABLES
    heap,      \* heap[h]: "free" or "live", the allocation state of address h
    dev,       \* dev[h]: the bytes at address h read as a kc705_device_t
    held,      \* the handle pointers kc705_open_device has returned so far
    fds,       \* the descriptors the process holds
    maps,      \* maps[a]: what is mapped at address a ("none" or a BAR of a device)
    regs,      \* regs[d][off]: the words of device d's control window (BAR0)
    img,       \* img[d][i]: byte i of device d's image region (BAR1 + 0x1000)
    crashed,   \* the process was killed (SIGSEGV, abort)
    class_buffer, \* the static buffer of kc705_get_class_name, as a string
    thr,       \* thr[t]: caller t's position, handle and the strings it keeps
    txn,       \* txn[d]: the transactions of device d (followed in SpecStale)
    last       \* the last API call: its arguments, return value and events

vars == <<heap, dev, held, fds, maps, regs, img, crashed, class_buffer, thr, txn,
          last>>

\* The process is alive and its state is still defined.
Running == ~crashed /\ last.ub = {}

\* ------------------------------------------------------------ the handle
\* kc705_device_t after memset(device, 0, ...): the fields the driver reads
\* back.  (bar_size and device_id are written and never read; device_path is
\* read only by the open call that wrote it, and is an argument there.)
ZeroDevice ==
    [pci_fd |-> 0, reg_base |-> NULL, mem_base |-> NULL, is_open |-> FALSE]

NoMap == [bar |-> "none", dev |-> 0]

FreeAddrs(M) == {a \in Addrs : M[a].bar = "none"}

\* A pointer value that names a live mapping.
Mapped(M, p) == p \in Addrs /\ M[p].bar # "none"

\* --------------------------------------------------------- map_pci_device
\* path: the device the path names (-1: a path that names no device, so that
\* open() fails); env: what the operating system answers to open(resource0), mmap(BAR0),
\* open(resource1) and mmap(BAR1).  open() returns the lowest free descriptor
\* and fails when there is none; mmap() fails when no address is free.
\* The result is the return code, the handle's fields, and the descriptors and
\* mappings the process holds when map_pci_device returns.
MapPciDeviceNoCloseOnFail(device, path, env, F, M) ==
    IF ~env.open0 \/ path \notin DevIdx \/ Fds \ F = {}
    THEN [ret |-> KC705_ERROR, device |-> [device EXCEPT !.pci_fd = -1],
          fds |-> F, maps |-> M]
    ELSE
    LET fd  == Min(Fds \ F)
        F1  == F \cup {fd}
        dv1 == [device EXCEPT !.pci_fd = fd]
    IN  IF ~env.mmap0 \/ FreeAddrs(M) = {}
        THEN [ret |-> KC705_ERROR, device |-> [dv1 EXCEPT !.reg_base = MAP_FAILED],
              fds |-> F1, maps |-> M]
        ELSE
        LET a   == Min(FreeAddrs(M))
            M1  == [M EXCEPT ![a] = [bar |-> "reg", dev |-> path]]
            dv2 == [dv1 EXCEPT !.reg_base = a]
        IN  IF ~env.open1 \/ Fds \ F1 = {}
            THEN [ret |-> KC705_SUCCESS, device |-> dv2, fds |-> F1, maps |-> M1]
            ELSE IF ~env.mmap1 \/ FreeAddrs(M1) = {}
            THEN [ret |-> KC705_SUCCESS, device |-> [dv2 EXCEPT !.mem_base = MAP_FAILED],
                  fds |-> F1, maps |-> M1]
            ELSE
            LET b == Min(FreeAddrs(M1))
            IN  [ret |-> KC705_SUCCESS, device |-> [dv2 EXCEPT !.mem_base = b],
                 fds |-> F1,
                 maps |-> [M1 EXCEPT ![b] = [bar |-> "mem", dev |-> path]]]

MapPciDevice(device, path, env, F, M) ==
    \* device->pci_fd = open(".../resource0", O_RDWR | O_SYNC)
    IF ~env.open0 \/ path \notin DevIdx \/ Fds \ F = {}
    THEN [ret |-> KC705_ERROR, device |-> [device EXCEPT !.pci_fd = -1],
          fds |-> F, maps |-> M]
    ELSE
    LET fd  == Min(Fds \ F)
        F1  == F \cup {fd}
        dv1 == [device EXCEPT !.pci_fd = fd]
    IN  \* device->reg_base = mmap(NULL, 4096, ..., device->pci_fd, 0)
        IF ~env.mmap0 \/ FreeAddrs(M) = {}
        THEN \* close(device->pci_fd); return KC705_ERROR
             [ret |-> KC705_ERROR, device |-> [dv1 EXCEPT !.reg_base = MAP_FAILED],
              fds |-> F1 \ {fd}, maps |-> M]
        ELSE
        LET a   == Min(FreeAddrs(M))
            M1  == [M EXCEPT ![a] = [bar |-> "reg", dev |-> path]]
            dv2 == [dv1 EXCEPT !.reg_base = a]
        IN  \* int mem_fd = open(".../resource1", ...); if (mem_fd >= 0) { ... }
            IF ~env.open1 \/ Fds \ F1 = {}
            THEN [ret |-> KC705_SUCCESS, device |-> dv2, fds |-> F1, maps |-> M1]
            \* device->mem_base = mmap(NULL, 65536, ...): stored unchecked;
            \* close(mem_fd) either way
            ELSE IF ~env.mmap1 \/ FreeAddrs(M1) = {}
            THEN [ret |-> KC705_SUCCESS, device |-> [dv2 EXCEPT !.mem_base = MAP_FAILED],
                  fds |-> F1, maps |-> M1]
            ELSE
            LET b == Min(FreeAddrs(M1))
            IN  [ret |-> KC705_SUCCESS, device |-> [dv2 EXCEPT !.mem_base = b],
                 fds |-> F1,
                 maps |-> [M1 EXCEPT ![b] = [bar |-> "mem", dev |-> path]]]

\* The answers that differ in effect: the first step that fails, or none.
AllOk == [open0 |-> TRUE, mmap0 |-> TRUE, open1 |-> TRUE, mmap1 |-> TRUE]

OsAnswers ==
    {AllOk, [AllOk EXCEPT !.open0 = FALSE], [AllOk EXCEPT !.mmap0 = FALSE],
     [AllOk EXCEPT !.open1 = FALSE], [AllOk EXCEPT !.mmap1 = FALSE]}

\* ------------------------------------------------------ kc705_open_device
\* n: the number of devices kc705_enumerate_devices reports; idx: device_index;
\* mallocOk: malloc succeeds; h: the address malloc returns (first fit: the
\* lowest free one; none when the heap is exhausted); tgt: the device the
\* copied path names (device_paths[idx] for 0 <= idx < n; for idx < 0 the bytes
\* in front of the array, which may name any device or none).
OpenResult(idx, n, mallocOk, h, tgt, env) ==
    LET early(stage) ==
            [ret |-> NULL, stage |-> stage, malloced |-> FALSE, path_reads |-> {},
             map_ret |-> KC705_SUCCESS, device |-> ZeroDevice, fds |-> fds,
             maps |-> maps, live |-> FALSE]
    IN
    \* if (num_devices == 0) return NULL
    IF n = 0 THEN early("no_device")
    \* if (device_index >= num_devices) return NULL
    ELSE IF idx >= n THEN early("bad_index")
    \* device = malloc(...); if (!device) return NULL
    ELSE IF ~mallocOk THEN early("no_memory")
    ELSE
    \* memset(device, 0, ...); strcpy(device->device_path, device_paths[device_index])
    LET m == MapPciDevice(ZeroDevice, tgt, env, fds, maps)
    IN  IF m.ret # KC705_SUCCESS
        THEN \* free(device); return NULL
             [ret |-> NULL, stage |-> "map_failed", malloced |-> TRUE,
              path_reads |-> {idx}, map_ret |-> m.ret, device |-> m.device,
              fds |-> m.fds, maps |-> m.maps, live |-> FALSE]
        ELSE \* device->is_open = true; device->device_id = device_index
             [ret |-> h, stage |-> "opened", malloced |-> TRUE,
              path_reads |-> {idx}, map_ret |-> m.ret,
              device |-> [m.device EXCEPT !.is_open = TRUE],
              fds |-> m.fds, maps |-> m.maps, live |-> TRUE]

FreeSlots == {x \in Handles : heap[x] = "free"}

OpenReturns(idx, n, h, r) ==
    /\ heap' = IF r.live THEN [heap EXCEPT ![h] = "live"] ELSE heap
    /\ dev' = IF r.malloced THEN [dev EXCEPT ![h] = r.device] ELSE dev
    /\ held' = IF r.ret = NULL THEN held ELSE held \cup {r.ret}
    /\ fds' = r.fds
    /\ maps' = r.maps
    /\ last' = [op |-> "open", idx |-> idx, found |-> n > 0,
                in_range |-> idx \in 0..(n - 1), ret |-> r.ret,
                stage |-> r.stage, malloced |-> r.malloced,
                path_reads |-> r.path_reads, map_ret |-> r.map_ret,
                ub |-> IF r.path_reads \subseteq 0..(n - 1) THEN {}
                       ELSE {"oob_path_read"}]
    /\ UNCHANGED <<regs, img, crashed, class_buffer>>

\* The environment's choices are drawn only where the call reaches them.
kc705_open_device(idx) ==
    /\ Running
    /\ \E n \in 0..MaxDevices,
          h \in IF FreeSlots = {} THEN {NULL} ELSE {Min(FreeSlots)} :
       \E mallocOk \in IF h = NULL \/ n = 0 \/ idx >= n THEN {FALSE} ELSE BOOLEAN,
          tgt \in IF idx \in 0..(n - 1) THEN {idx} ELSE DevIdx \cup {-1} :
       \E env \in IF mallocOk THEN OsAnswers ELSE {AllOk} :
        OpenReturns(idx, n, h, OpenResult(idx, n, mallocOk, h, tgt, env))

\* ------------------------------------------------------------ kc705_close
\* What a read of the handle's fields yields: the fields of a live handle; for
\* released memory (undefined behaviour) the bytes left there, with is_open
\* either value (the store before free() may be dropped as a dead store, and
\* the allocator may overwrite the block).
Observed(h) ==
    IF heap[h] = "live" THEN {dev[h]}
    ELSE {[dev[h] EXCEPT !.is_open = b] : b \in BOOLEAN}

CloseResultKeepsDataWindow(h, d, abortOnDoubleFree) ==
    IF h = NULL \/ ~d.is_open
    THEN [ret |-> KC705_INVALID_PARAM, heap |-> heap, dev |-> dev, fds |-> fds,
          maps |-> maps, ev |-> {}, crashed |-> FALSE]
    ELSE
    LET unmapReg == d.reg_base # NULL /\ d.reg_base # MAP_FAILED
        M1 == IF unmapReg /\ Mapped(maps, d.reg_base)
              THEN [maps EXCEPT ![d.reg_base] = NoMap] ELSE maps
        F1 == IF d.pci_fd >= 0 THEN fds \ {d.pci_fd} ELSE fds
    IN  [ret |-> KC705_SUCCESS,
         heap |-> [heap EXCEPT ![h] = "free"],
         dev |-> [dev EXCEPT ![h] = [d EXCEPT !.is_open = FALSE]],
         fds |-> F1, maps |-> M1, ev |-> {}, crashed |-> FALSE]

CloseResult(h, d, abortOnDoubleFree) ==
    \* if (!device || !device->is_open) return KC705_INVALID_PARAM
    IF h = NULL \/ ~d.is_open
    THEN [ret |-> KC705_INVALID_PARAM, heap |-> heap, dev |-> dev, fds |-> fds,
          maps |-> maps, ev |-> {}, crashed |-> FALSE]
    ELSE
    LET \* if (reg_base && reg_base != MAP_FAILED) munmap(reg_base, 4096)
        unmapReg == d.reg_base # NULL /\ d.reg_base # MAP_FAILED
        M1 == IF unmapReg /\ Mapped(maps, d.reg_base)
              THEN [maps EXCEPT ![d.reg_base] = NoMap] ELSE maps
        e1 == IF unmapReg /\ ~Mapped(maps, d.reg_base) THEN {"double_unmap"} ELSE {}
        \* if (mem_base && mem_base != MAP_FAILED) munmap(mem_base, 65536)
        unmapMem == d.mem_base # NULL /\ d.mem_base # MAP_FAILED
        M2 == IF unmapMem /\ Mapped(M1, d.mem_base)
              THEN [M1 EXCEPT ![d.mem_base] = NoMap] ELSE M1
        e2 == IF unmapMem /\ ~Mapped(M1, d.mem_base) THEN {"double_unmap"} ELSE {}
        \* if (pci_fd >= 0) close(pci_fd)
        e3 == IF d.pci_fd >= 0 /\ d.pci_fd \notin fds THEN {"double_close"} ELSE {}
        F1 == IF d.pci_fd >= 0 THEN fds \ {d.pci_fd} ELSE fds
        \* device->is_open = false; free(device)
        e4 == IF heap[h] = "free" THEN {"double_free"} ELSE {}
    IN  [ret |-> KC705_SUCCESS,
         heap |-> [heap EXCEPT ![h] = "free"],
         dev |-> [dev EXCEPT ![h] = [d EXCEPT !.is_open = FALSE]],
         fds |-> F1, maps |-> M2, ev |-> e1 \cup e2 \cup e3 \cup e4,
         crashed |-> heap[h] = "free" /\ abortOnDoubleFree]

kc705_close(h) ==
    /\ Running
    /\ \E d \in IF h = NULL THEN {ZeroDevice} ELSE Observed(h) :
       \E abortOnDoubleFree \in IF h # NULL /\ heap[h] = "free" /\ d.is_open
                                THEN BOOLEAN ELSE {FALSE} :
        LET r == CloseResult(h, d, abortOnDoubleFree)
        IN  /\ heap' = r.heap
            /\ dev' = r.dev
            /\ fds' = r.fds
            /\ maps' = r.maps
            /\ crashed' = r.crashed
            /\ last' = [op |-> "close", h |-> h, ret |-> r.ret,
                        was_live |-> (h # NULL /\ heap[h] = "live"),
                        owned |-> IF h # NULL /\ heap[h] = "live"
                                  THEN [fds |-> {dev[h].pci_fd} \cap Fds,
                                        maps |-> {dev[h].reg_base, dev[h].mem_base} \cap Addrs]
                                  ELSE [fds |-> {}, maps |-> {}],
                        ub |-> (IF h # NULL /\ heap[h] = "free" THEN {"uaf_read"} ELSE {})
                               \cup r.ev]
            /\ UNCHANGED <<held, regs, img, class_buffer>>

\* ------------------------------------------------- register access layer
\* The registers and image bytes the model observes.
TrackedRegs == {REG_CONTROL, REG_STATUS, REG_IMAGE_SIZE}
TrackLen == MaxSize + 3

\* The state an API call works on while it runs: the device memory, the
\* register-layer accesses made so far (log), the undefined operations met (ev),
\* whether the process was killed, the code of the last register call, and the
\* number of register calls that returned an error (errs).
CallState ==
    [regs |-> regs, img |-> img, log |-> <<>>, ev |-> {}, crashed |-> FALSE,
     ret |-> KC705_SUCCESS, out |-> <<>>, errs |-> 0]

\* The handle passes "!device || !device->is_open || !device->reg_base".
RegGuardNoOpenCheck(h, d) == h # NULL /\ d.reg_base # NULL

RegGuard(h, d) == h # NULL /\ d.is_open /\ d.reg_base # NULL

\* The word at reg_base + off lies in the 4096-byte BAR0 mapping of the handle.
InRegWindow(d, off) ==
    /\ Mapped(maps, d.reg_base)
    /\ maps[d.reg_base].bar = "reg"
    /\ off >= 0
    /\ off + 4 <= REG_WINDOW_SIZE

\* kc705_write_reg; fault: an access outside the mapping raises SIGSEGV
\* (otherwise it lands in whatever memory lies there).
WriteReg(st, h, d, off, val, fault) ==
    IF st.crashed THEN st
    ELSE IF ~RegGuard(h, d)
    THEN [st EXCEPT !.ret = KC705_INVALID_PARAM, !.errs = @ + 1]
    ELSE
    LET st1 == [st EXCEPT !.log = Append(@, <<"w", off, val>>)]
    IN  IF InRegWindow(d, off)
        THEN [st1 EXCEPT !.ret = KC705_SUCCESS,
                         !.regs = IF off \in TrackedRegs
                                  THEN [@ EXCEPT ![maps[d.reg_base].dev][off] = val]
                                  ELSE @]
        ELSE [st1 EXCEPT !.ret = KC705_SUCCESS, !.crashed = fault,
                         !.ev = @ \cup {"reg_access_outside_window"}]

\* kc705_read_reg; garbage: the word found outside the mapping.
ReadReg(st, h, d, off, fault, garbage) ==
    IF st.crashed THEN st
    ELSE IF ~RegGuard(h, d)
    THEN [st EXCEPT !.ret = KC705_INVALID_PARAM, !.out = <<>>, !.errs = @ + 1]
    ELSE
    LET st1 == [st EXCEPT !.log = Append(@, <<"r", off>>)]
    IN  IF InRegWindow(d, off)
        THEN [st1 EXCEPT !.ret = KC705_SUCCESS,
                         !.out = IF off \in TrackedRegs
                                 THEN <<st.regs[maps[d.reg_base].dev][off]>>
                                 ELSE <<0>>]
        ELSE [st1 EXCEPT !.ret = KC705_SUCCESS, !.crashed = fault,
                         !.out = IF fault THEN <<>> ELSE <<garbage>>,
                         !.ev = @ \cup {"reg_access_outside_window"}]

\* A killed call does not return.
NoReturn == KC705_SUCCESS + 1

Ret(st) == IF st.crashed THEN NoReturn ELSE st.ret

\* The undefined read of a released handle, if the call reads the handle.
UafRead(h) == IF h # NULL /\ heap[h] = "free" THEN {"uaf_read"} ELSE {}

HandleArgs == {NULL} \cup held

ObservedArg(h) == IF h = NULL THEN {ZeroDevice} ELSE Observed(h)

\* Offsets and words the caller passes to the register layer.
ApiOffsets == {REG_CONTROL, REG_STATUS, REG_IMAGE_SIZE, KC705_IMAGE_BASE}
ApiWords == {CTRL_START + CTRL_IRQ_EN, 0}

kc705_read_reg(h, off) ==
    /\ Running
    /\ \E d \in ObservedArg(h), fault \in BOOLEAN :
        LET st == ReadReg(CallState, h, d, off, fault, 0)
        IN  /\ crashed' = st.crashed
            /\ last' = [op |-> "read_reg", h |-> h, off |-> off, ret |-> Ret(st),
                        out |-> st.out, log |-> st.log,
                        is_open |-> d.is_open, reg_base |-> d.reg_base,
                        ub |-> UafRead(h) \cup st.ev]
            /\ UNCHANGED <<heap, dev, held, fds, maps, regs, img, class_buffer>>

kc705_write_reg(h, off, val) ==
    /\ Running
    /\ \E d \in ObservedArg(h), fault \in BOOLEAN :
        LET st == WriteReg(CallState, h, d, off, val, fault)
        IN  /\ regs' = st.regs
            /\ crashed' = st.crashed
            /\ last' = [op |-> "write_reg", h |-> h, off |-> off, val |-> val,
                        ret |-> Ret(st), log |-> st.log,
                        is_open |-> d.is_open, reg_base |-> d.reg_base,
                        ub |-> UafRead(h) \cup st.ev]
            /\ UNCHANGED <<heap, dev, held, fds, maps, img, class_buffer>>

\* ----------------------------------------------------- kc705_upload_image
\* The caller's buffers: byte i of the buffer with pattern pat.  The bytes are
\* kept below 128 so that every 32-bit word made of them is a non-negative
\* integer the model checker can hold.
Patterns == {1, 100}

BufByte(pat, i) == (pat + i) % 128

\* *(uint32_t*)(image_data + i) on a little-endian host; bytes past the end of
\* the buffer are an out-of-bounds read and hold whatever lies there (garbage).
BufWord(pat, size, i, garbage) ==
    LET byte(k) == IF i + k < size THEN BufByte(pat, i + k) ELSE garbage
    IN  byte(0) + 256 * byte(1) + 65536 * byte(2) + 16777216 * byte(3)

\* memcpy((char*)device->mem_base + KC705_IMAGE_BASE, image_data, size)
\* (the log entry <<"m", offset, size>> records the copy into the data window)
MemcpyImage(st, d, pat, size, fault) ==
    IF size = 0 THEN [st EXCEPT !.log = Append(@, <<"m", KC705_IMAGE_BASE, 0>>)]
    ELSE IF /\ Mapped(maps, d.mem_base)
            /\ maps[d.mem_base].bar = "mem"
            /\ KC705_IMAGE_BASE + size <= MEM_WINDOW_SIZE
    THEN [st EXCEPT !.log = Append(@, <<"m", KC705_IMAGE_BASE, size>>),
                    !.img[maps[d.mem_base].dev] =
                        [i \in DOMAIN @ |-> IF i < size THEN BufByte(pat, i) ELSE @[i]]]
    ELSE [st EXCEPT !.log = Append(@, <<"m", KC705_IMAGE_BASE, size>>),
                    !.crashed = fault, !.ev = @ \cup {"data_window_bad_pointer"}]

\* for (size_t i = 0; i < size; i += 4) {
\*     uint32_t word = *(uint32_t*)(image_data + i);
\*     kc705_write_reg(device, KC705_IMAGE_BASE + i, word); }
\* One pass of the loop body, for i = 4 * k:
UploadWord(st, h, d, pat, size, k, fault, garbage) ==
    IF st.crashed THEN st
    ELSE LET i   == 4 * k
             st1 == IF i + 4 > size
                    THEN [st EXCEPT !.ev = @ \cup {"buffer_overread"}]
                    ELSE st
         IN  WriteReg(st1, h, d, KC705_IMAGE_BASE + i,
                      BufWord(pat, size, i, garbage), fault)

\* The passes lo .. hi-1 in ascending order, each on the state the one before
\* left; nothing runs after a pass that killed the process.  (The range is
\* split in halves, and the halves' logs are joined, to keep the evaluation
\* shallow and cheap.)
JoinLogs(st, left, right) == [right EXCEPT !.log = st.log \o left.log \o @]

RECURSIVE UploadPasses(_, _, _, _, _, _, _, _, _)
RECURSIVE UploadRest(_, _, _, _, _, _, _, _, _, _)
UploadPasses(st, h, d, pat, size, lo, hi, fault, garbage) ==
    IF lo >= hi THEN st
    ELSE IF hi = lo + 1 THEN UploadWord(st, h, d, pat, size, lo, fault, garbage)
    ELSE UploadRest(st,
                    UploadPasses([st EXCEPT !.log = <<>>], h, d, pat, size,
                                 lo, (lo + hi) \div 2, fault, garbage),
                    h, d, pat, size, (lo + hi) \div 2, hi, fault, garbage)

UploadRest(st, left, h, d, pat, size, mid, hi, fault, garbage) ==
    IF left.crashed THEN [left EXCEPT !.log = st.log \o @]
    ELSE JoinLogs(st, left,
                  UploadPasses([left EXCEPT !.log = <<>>], h, d, pat, size,
                               mid, hi, fault, garbage))

\* The loop runs for i = 0, 4, 8, ... while i < size: (size + 3) / 4 passes.
UploadLoop(st, h, d, pat, size, fault, garbage) ==
    UploadPasses(st, h, d, pat, size, 0, (size + 3) \div 4, fault, garbage)

\* data: the buffer pointer (NULL, or the pattern of the buffer it points to).
SizeCheckOff(size) == FALSE

SizeCheck(size) == size > UPLOAD_LIMIT

\* if (!device || !device->is_open || !image_data) return KC705_INVALID_PARAM
UploadGuardNoBufferCheck(h, d, data) == h # NULL /\ d.is_open

UploadGuard(h, d, data) == h # NULL /\ d.is_open /\ data # NULL

UploadImage(st, h, d, data, size, fault, garbage) ==
    IF ~UploadGuard(h, d, data)
    THEN [st EXCEPT !.ret = KC705_INVALID_PARAM]
    \* if (size > 4096) return KC705_INVALID_PARAM
    ELSE IF SizeCheck(size)
    THEN [st EXCEPT !.ret = KC705_INVALID_PARAM]
    ELSE
    \* kc705_write_reg(device, REG_IMAGE_SIZE, size) after the data; its code is
    \* not checked and KC705_SUCCESS is returned
    [WriteReg(IF d.mem_base # NULL
              THEN MemcpyImage(st, d, data, size, fault)
              ELSE UploadLoop(st, h, d, data, size, fault, garbage),
              h, d, REG_IMAGE_SIZE, size, fault)
     EXCEPT !.ret = KC705_SUCCESS]

Sizes == 0..MaxSize \cup {UPLOAD_LIMIT, UPLOAD_LIMIT + 1}

Garbage == {0, 127}

UploadReturns(h, data, size, d, st) ==
    /\ regs' = st.regs
    /\ img' = st.img
    /\ crashed' = st.crashed
    /\ last' = [op |-> "upload", h |-> h, data |-> data, size |-> size,
                ret |-> Ret(st), log |-> st.log,
                is_open |-> d.is_open, reg_base |-> d.reg_base,
                mem_base |-> d.mem_base,
                ub |-> UafRead(h) \cup st.ev]
    /\ UNCHANGED <<heap, dev, held, fds, maps, class_buffer>>

kc705_upload_image(h, data, size) ==
    /\ Running
    /\ \E d \in ObservedArg(h), fault \in BOOLEAN,
          garbage \in IF size % 4 = 0 THEN {0} ELSE Garbage :
        UploadReturns(h, data, size, d,
                      UploadImage(CallState, h, d, data, size, fault, garbage))

\* ------------------------------------------------------- inference calls
TIMEOUT_MS  == 5000      \* int timeout_ms = 5000
NUM_CLASSES == 1000
CONF_SCALE  == 10000     \* (float)confidence_raw / 10000.0f
FLOAT_EXACT == 16777216  \* 2^24: a float holds every integer up to it

\* What the device shows in the DONE bit of STATUS at the i-th status read of
\* a call (i = 1, 2, ...): set at the reads from .. to, clear at the others.
Sched(a, b) == [from |-> a, to |-> b]
Forever == TIMEOUT_MS + 2
Never == Sched(1, 0)
Always == Sched(1, Forever)
Scheds ==
    {Never, Always, Sched(1, 1), Sched(2, Forever),
     Sched(TIMEOUT_MS, Forever), Sched(TIMEOUT_MS + 1, Forever)}

StatusAt(s, i) == IF s.from <= i /\ i <= s.to THEN STAT_DONE ELSE 0

\* kc705_is_done on the word its status read finds; a failed read is "not done".
IsDone(readable, status) == readable /\ (status \div STAT_DONE) % 2 = 1

\* while (!kc705_is_done(device) && elapsed_ms < timeout_ms)
\*     { usleep(1000); elapsed_ms++; }
\* base: the status reads the call made before the loop.
LoopGoesOnNoBudget(readable, s, base, elapsed) ==
    ~IsDone(readable, StatusAt(s, base + elapsed + 1))

LoopGoesOn(readable, s, base, elapsed) ==
    ~IsDone(readable, StatusAt(s, base + elapsed + 1)) /\ elapsed < TIMEOUT_MS

\* elapsed_ms when the loop, entered with elapsed_ms = lo, is left, or hi when
\* it is still running after hi - lo passes.  (Split in halves to keep the
\* evaluation shallow.)
RECURSIVE PollRange(_, _, _, _, _)
RECURSIVE PollJoin(_, _, _, _, _, _)
PollRange(readable, s, base, lo, hi) ==
    IF lo >= hi THEN lo
    ELSE IF hi = lo + 1
    THEN IF LoopGoesOn(readable, s, base, lo) THEN hi ELSE lo
    ELSE PollJoin(readable, s, base,
                  PollRange(readable, s, base, lo, (lo + hi) \div 2),
                  (lo + hi) \div 2, hi)

PollJoin(readable, s, base, m, mid, hi) ==
    IF m < mid THEN m ELSE PollRange(readable, s, base, mid, hi)

\* The passes after which a loop still running is given up as endless.
PollCap == 2 * TIMEOUT_MS

\* elapsed_ms after the loop, for every device behaviour followed.
PollTable ==
    [readable \in BOOLEAN, s \in Scheds, base \in {0, 1} |->
        PollRange(readable, s, base, 0, PollCap)]

\* if (elapsed_ms >= timeout_ms) return KC705_TIMEOUT
TimedOutStrict(elapsed) == elapsed > TIMEOUT_MS

TimedOut(elapsed) == elapsed >= TIMEOUT_MS

\* (float)x for a 32-bit unsigned x: the nearest value with a 24-bit
\* significand, ties to even.
RECURSIVE Ulp(_, _)
Ulp(x, u) == IF x \div u < FLOAT_EXACT THEN u ELSE Ulp(x, 2 * u)

ToFloat(x) ==
    LET u == Ulp(x, 1)
        q == x \div u
        r == x % u
    IN  IF 2 * r < u THEN q * u
        ELSE IF 2 * r > u THEN (q + 1) * u
        ELSE (q + (q % 2)) * u

\* result->confidence = (float)confidence_raw / 10000.0f, kept as the
\* quotient num / den.  (Float division rounds monotonically and 1.0 is a
\* float, so the stored value is at most 1 exactly when num <= den.)
ConfidenceOf(raw) == [num |-> ToFloat(raw), den |-> CONF_SCALE]

\* result->class_id = class_id % NUM_CLASSES
ClassOfRaw(w) == w

ClassOf(w) == w % NUM_CLASSES

\* The three words the device holds at KC705_RESULT_BASE.
SimulatedRecord == <<42, 8734, 1500>>
ResultRecords == {SimulatedRecord, <<1042, 10001, 7>>, <<2147483647, 16777217, 0>>}

\* The result words matter to a call only when the device ever shows DONE.
Raws(s) == IF s = Never THEN {SimulatedRecord} ELSE ResultRecords

\* What the caller's record holds before a call: a cleared record, or the
\* result of an earlier inference.
ClearedRecord ==
    [class_id |-> 0, confidence |-> [num |-> 0, den |-> CONF_SCALE],
     processing_time_us |-> 0, valid |-> FALSE]
EarlierRecord ==
    [class_id |-> 7, confidence |-> [num |-> 5000, den |-> CONF_SCALE],
     processing_time_us |-> 9, valid |-> TRUE]

\* The result argument: <<>> for a NULL pointer, <<r>> for a pointer to r.
ResultArgs == {<<>>, <<ClearedRecord>>, <<EarlierRecord>>}

\* The state of an inference call: CallState and the caller's record (rec),
\* the result words read (words), the sleeps and status reads made, what the
\* last kc705_is_done returned (saw_done), elapsed_ms, the codes the calls
\* made by kc705_infer returned (rets), and the image buffers the call got
\* from malloc (allocs) and gave to free (frees).
InferState(result) ==
    [regs |-> regs, img |-> img, log |-> <<>>, ev |-> {}, crashed |-> FALSE,
     ret |-> KC705_SUCCESS, out |-> <<>>, errs |-> 0, rec |-> result,
     words |-> <<>>,
     sleeps |-> 0, checks |-> 0, saw_done |-> FALSE, elapsed |-> 0,
     rets |-> <<>>, allocs |-> 0, frees |-> 0]

\* The device behaviour the status reads of the call see: the device's own
\* when the reads go to its STATUS register, and a constant word when they go
\* through a pointer that is not a live register mapping.
SchedSeen(h, d, s, garbage) ==
    IF RegGuard(h, d) /\ ~InRegWindow(d, REG_STATUS)
    THEN IF garbage % 2 = 1 THEN Always ELSE Never
    ELSE s

\* n consecutive kc705_is_done calls with e sleeps between them, the last call
\* being status read number i of the device behaviour s.
StatusReads(st, h, d, s, i, n, e, fault) ==
    IF ~RegGuard(h, d)
    THEN [st EXCEPT !.sleeps = @ + e, !.checks = @ + n, !.saw_done = FALSE,
                    !.elapsed = e, !.errs = @ + n,
                    !.log = IF e = 0 THEN @ ELSE Append(@, <<"poll", 0, e>>)]
    ELSE IF ~InRegWindow(d, REG_STATUS) /\ fault
    THEN [st EXCEPT !.crashed = TRUE, !.checks = @ + 1,
                    !.log = Append(@, <<"poll", 1, 0>>),
                    !.ev = @ \cup {"reg_access_outside_window"}]
    ELSE [st EXCEPT !.sleeps = @ + e, !.checks = @ + n,
                    !.saw_done = IsDone(TRUE, StatusAt(s, i)),
                    !.elapsed = e,
                    !.log = Append(@, <<"poll", n, e>>),
                    !.regs = IF InRegWindow(d, REG_STATUS)
                             THEN [@ EXCEPT ![maps[d.reg_base].dev][REG_STATUS] =
                                                StatusAt(s, i)]
                             ELSE @,
                    !.ev = IF InRegWindow(d, REG_STATUS) THEN @
                           ELSE @ \cup {"reg_access_outside_window"}]

\* The polling loop of kc705_get_result.
PollAfter(st, h, d, s, base, e, fault) ==
    StatusReads(st, h, d, s, base + e + 1, e + 1, e, fault)

Poll(st, h, d, s, base, fault, garbage) ==
    PollAfter(st, h, d, SchedSeen(h, d, s, garbage), base,
              PollTable[RegGuard(h, d), SchedSeen(h, d, s, garbage), base],
              fault)

\* One of kc705_read_reg(device, KC705_RESULT_BASE + 4 * k, &word): its code is
\* not checked, and the word keeps its uninitialized value when the call fails.
ResultWordRead(r, garbage) ==
    IF r.crashed THEN r
    ELSE IF r.out = <<>>
    THEN [r EXCEPT !.words = Append(@, garbage),
                   !.ev = @ \cup {"uninitialized_read"}]
    ELSE [r EXCEPT !.words = Append(@, r.out[1])]

ReadResultWord(st, h, d, k, fault, garbage) ==
    IF st.crashed THEN st
    ELSE ResultWordRead(ReadReg(st, h, d, KC705_RESULT_BASE + 4 * k, fault, garbage),
                        garbage)

\* The read of class_id, confidence_raw and timing; raw: the device's words.
ReadResultWords(st, h, d, raw, fault, garbage) ==
    IF d.mem_base # NULL
    THEN IF Mapped(maps, d.mem_base) /\ maps[d.mem_base].bar = "mem"
         THEN [st EXCEPT !.words = raw,
                         !.log = Append(@, <<"mr", KC705_RESULT_BASE, 12>>)]
         ELSE [st EXCEPT !.words = IF fault THEN <<>> ELSE <<garbage, garbage, garbage>>,
                         !.log = Append(@, <<"mr", KC705_RESULT_BASE, 12>>),
                         !.crashed = fault,
                         !.ev = @ \cup {"data_window_bad_pointer"}]
    ELSE ReadResultWord(ReadResultWord(ReadResultWord(st, h, d, 0, fault, garbage),
                                       h, d, 1, fault, garbage),
                        h, d, 2, fault, garbage)

\* Fill result structure
FillResult(st) ==
    IF st.crashed THEN st
    ELSE [st EXCEPT !.rec = <<[class_id |-> ClassOf(st.words[1]),
                               confidence |-> ConfidenceOf(st.words[2]),
                               processing_time_us |-> st.words[3],
                               valid |-> TRUE]>>,
                    !.ret = KC705_SUCCESS]

GetResultAfterPoll(st, h, d, raw, fault, garbage) ==
    IF st.crashed THEN st
    ELSE IF TimedOut(st.elapsed) THEN [st EXCEPT !.ret = KC705_TIMEOUT]
    ELSE FillResult(ReadResultWords(st, h, d, raw, fault, garbage))

\* kc705_get_result; base: the status reads the caller made before it.
GetResult(st, h, d, s, base, raw, fault, garbage) ==
    IF h = NULL \/ ~d.is_open \/ st.rec = <<>>
    THEN [st EXCEPT !.ret = KC705_INVALID_PARAM]
    ELSE GetResultAfterPoll(Poll(st, h, d, s, base, fault, garbage),
                            h, d, raw, fault, garbage)

\* kc705_get_result_nowait
NowaitAfterCheck(st, h, d, s, raw, fault, garbage) ==
    IF st.crashed THEN st
    ELSE IF ~st.saw_done THEN [st EXCEPT !.ret = KC705_TIMEOUT]
    ELSE GetResult(st, h, d, s, 1, raw, fault, garbage)

GetResultNowait(st, h, d, s, raw, fault, garbage) ==
    NowaitAfterCheck(StatusReads(st, h, d, SchedSeen(h, d, s, garbage), 1, 1, 0, fault),
                     h, d, s, raw, fault, garbage)

\* kc705_start_inference
StartInferenceDropsCode(st, h, d, fault) ==
    IF h = NULL \/ ~d.is_open THEN [st EXCEPT !.ret = KC705_INVALID_PARAM]
    ELSE [WriteReg(st, h, d, REG_CONTROL, CTRL_START + CTRL_IRQ_EN, fault)
          EXCEPT !.ret = KC705_SUCCESS]

StartInferenceTwice(st, h, d, fault) ==
    IF h = NULL \/ ~d.is_open THEN [st EXCEPT !.ret = KC705_INVALID_PARAM]
    ELSE WriteReg(WriteReg(st, h, d, REG_CONTROL, CTRL_START + CTRL_IRQ_EN, fault),
                  h, d, REG_CONTROL, CTRL_START + CTRL_IRQ_EN, fault)

StartInference(st, h, d, fault) ==
    IF h = NULL \/ ~d.is_open THEN [st EXCEPT !.ret = KC705_INVALID_PARAM]
    ELSE WriteReg(st, h, d, REG_CONTROL, CTRL_START + CTRL_IRQ_EN, fault)

\* kc705_infer: ret = upload; if (ret != SUCCESS) return ret; ret = start;
\* if (ret != SUCCESS) return ret; return get_result.
Returned(st) == [st EXCEPT !.rets = Append(@, Ret(st))]

InferAfterStart(st, h, d, s, raw, fault, garbage) ==
    IF st.crashed \/ st.ret # KC705_SUCCESS THEN st
    ELSE Returned(GetResult(st, h, d, s, 0, raw, fault, garbage))

InferAfterUpload(st, h, d, s, raw, fault, garbage) ==
    IF st.crashed \/ st.ret # KC705_SUCCESS THEN st
    ELSE InferAfterStart(Returned(StartInference(st, h, d, fault)),
                         h, d, s, raw, fault, garbage)

Infer(st, h, d, data, size, s, raw, fault, garbage) ==
    InferAfterUpload(Returned(UploadImage(st, h, d, data, size, fault, garbage)),
                     h, d, s, raw, fault, garbage)

\* The inputs that decide a call's outcome: the device behaviour and result
\* words matter once the call polls, the outcome of an undefined access when
\* the handle's windows are not both live mappings.
WindowsLive(d) == InRegWindow(d, REG_CONTROL) /\ Mapped(maps, d.mem_base)
Faults(d) == IF WindowsLive(d) THEN {FALSE} ELSE BOOLEAN
Garbages(d) == IF WindowsLive(d) THEN {0} ELSE Garbage

\* The handle after a call of the status, control, inference or information
\* functions: none of them stores to *device.
DeviceAfterErrorCloses(d, st) ==
    IF st.ret # KC705_SUCCESS THEN [d EXCEPT !.is_open = FALSE] ELSE d

DeviceAfter(d, st) == d

InferReturns(op, h, d, result, data, size, s, st) ==
    /\ regs' = st.regs
    /\ img' = st.img
    /\ crashed' = st.crashed
    /\ last' = [op |-> op, h |-> h, result |-> result, data |-> data,
                size |-> size, ret |-> Ret(st), log |-> st.log, rec |-> st.rec,
                words |-> st.words, sleeps |-> st.sleeps, checks |-> st.checks,
                saw_done |-> st.saw_done, rets |-> st.rets, errs |-> st.errs,
                sched |-> IF st.checks = 0 THEN Never ELSE s,
                is_open |-> d.is_open, reg_base |-> d.reg_base,
                mem_base |-> d.mem_base, ub |-> UafRead(h) \cup st.ev]
    /\ dev' = IF h # NULL /\ heap[h] = "live"
              THEN [dev EXCEPT ![h] = DeviceAfter(d, st)]
              ELSE dev
    /\ UNCHANGED <<heap, held, fds, maps, class_buffer>>

kc705_get_result(h, result) ==
    /\ Running
    /\ \E d \in ObservedArg(h) :
       \E s \in IF h = NULL \/ ~d.is_open \/ result = <<>> THEN {Never} ELSE Scheds,
          fault \in Faults(d), garbage \in Garbages(d) :
         \E raw \in Raws(s) :
            InferReturns("get_result", h, d, result, NULL, 0, s,
                         GetResult(InferState(result), h, d, s, 0, raw, fault, garbage))

kc705_get_result_nowait(h, result) ==
    /\ Running
    /\ \E d \in ObservedArg(h) :
       \E s \in IF RegGuard(h, d) THEN Scheds ELSE {Never},
          fault \in Faults(d), garbage \in Garbages(d) :
         \E raw \in Raws(s) :
            InferReturns("get_result_nowait", h, d, result, NULL, 0, s,
                         GetResultNowait(InferState(result), h, d, s, raw, fault, garbage))

InferSizes == {0, MaxSize, IMAGE_SIZE}

\* What kc705_infer finds in the handle: as ObservedArg, and in released
\* memory the pointer fields may also read as NULL (the allocator keeps its own
\* data in a released block).
ObservedByInfer(h) ==
    IF h = NULL \/ heap[h] = "live" THEN ObservedArg(h)
    ELSE {[dev[h] EXCEPT !.is_open = b, !.reg_base = r, !.mem_base = m] :
            b \in BOOLEAN, r \in {dev[h].reg_base, NULL},
            m \in {dev[h].mem_base, NULL}}

kc705_infer(h, data, size, result) ==
    /\ Running
    /\ \E d \in ObservedByInfer(h) :
       \E s \in IF UploadGuard(h, d, data) /\ ~SizeCheck(size) /\ result # <<>>
               THEN Scheds ELSE {Never},
          fault \in Faults(d), garbage \in Garbages(d) :
         \E raw \in Raws(s) :
            InferReturns("infer", h, d, result, data, size, s,
                         Infer(InferState(result), h, d, data, size, s, raw,
                               fault, garbage))

\* ------------------------------------------------------- status and control
CTRL_RESET == 2

\* usleep(us)
Usleep(st, us) ==
    [st EXCEPT !.sleeps = @ + 1, !.log = Append(@, <<"sleep", us>>)]

\* kc705_reset: set the reset bit, wait 1 ms, clear it.
ResetKeepsGoing(st, h, d, fault) ==
    WriteReg(Usleep(WriteReg(st, h, d, REG_CONTROL, CTRL_RESET, fault), 1000),
             h, d, REG_CONTROL, 0, fault)

Reset(st, h, d, fault) ==
    LET a == WriteReg(st, h, d, REG_CONTROL, CTRL_RESET, fault)
    IN  IF a.crashed \/ a.ret # KC705_SUCCESS THEN a
        ELSE WriteReg(Usleep(a, 1000), h, d, REG_CONTROL, 0, fault)

kc705_reset(h) ==
    /\ Running
    /\ \E d \in ObservedArg(h) : \E fault \in Faults(d) :
         InferReturns("reset", h, d, <<>>, NULL, 0, Never,
                      Reset(InferState(<<>>), h, d, fault))

kc705_start_inference(h) ==
    /\ Running
    /\ \E d \in ObservedArg(h) : \E fault \in Faults(d) :
         InferReturns("start_inference", h, d, <<>>, NULL, 0, Never,
                      StartInference(InferState(<<>>), h, d, fault))

\* kc705_is_done: one status read; the answer is saw_done.
kc705_is_done(h) ==
    /\ Running
    /\ \E d \in ObservedArg(h) :
       \E fault \in Faults(d), garbage \in Garbages(d),
          s \in IF RegGuard(h, d) THEN {Never, Always} ELSE {Never} :
         InferReturns("is_done", h, d, <<>>, NULL, 0, s,
                      StatusReads(InferState(<<>>), h, d,
                                  SchedSeen(h, d, s, garbage), 1, 1, 0, fault))

\* ------------------------------------------------------ kc705_get_device_info
KC705_VENDOR_ID == 4334    \* 0x10EE
KC705_DEVICE_ID == 28708   \* 0x7024
INFO_REVISION   == 1
LINK_SPEED      == 5
LINK_WIDTH      == 8

\* The words the device may show in STATUS when the call reads it.
StatusWords == {0, STAT_DONE, STAT_LINK_UP, STAT_LINK_UP + STAT_DONE}

\* The device shows word w in the STATUS register the handle maps.
DeviceShows(st, d, w) ==
    IF InRegWindow(d, REG_STATUS)
    THEN [st EXCEPT !.regs[maps[d.reg_base].dev][REG_STATUS] = w]
    ELSE st

\* The caller's device_info_t before the call, and NULL.
ClearedInfo ==
    [vendor_id |-> 0, device_id |-> 0, revision |-> 0, driver_version |-> "",
     link_up |-> FALSE, link_speed |-> 0, link_width |-> 0]
InfoArgs == {<<>>, <<ClearedInfo>>}

\* uint32_t status; kc705_read_reg(device, REG_STATUS, &status): the code of
\* the read is not looked at, and status keeps its uninitialized value
\* (garbage) when the read fails.
StatusWordRead(r, garbage) ==
    IF r.crashed THEN r
    ELSE IF r.out = <<>>
    THEN [r EXCEPT !.words = <<garbage>>, !.ev = @ \cup {"uninitialized_read"}]
    ELSE [r EXCEPT !.words = <<r.out[1]>>]

LinkUp(status) == (status \div STAT_LINK_UP) % 2 = 1

FillInfo(st) ==
    IF st.crashed THEN st
    ELSE [st EXCEPT !.rec = <<[vendor_id |-> KC705_VENDOR_ID,
                               device_id |-> KC705_DEVICE_ID,
                               revision |-> INFO_REVISION,
                               driver_version |-> "1.0.0",
                               link_up |-> LinkUp(st.words[1]),
                               link_speed |-> LINK_SPEED,
                               link_width |-> LINK_WIDTH]>>,
                    !.ret = KC705_SUCCESS]

GetDeviceInfo(st, h, d, fault, garbage) ==
    IF h = NULL \/ st.rec = <<>> THEN [st EXCEPT !.ret = KC705_INVALID_PARAM]
    ELSE FillInfo(StatusWordRead(ReadReg(st, h, d, REG_STATUS, fault, garbage),
                                 garbage))

kc705_get_device_info(h, info) ==
    /\ Running
    /\ \E d \in ObservedArg(h) :
       \E w \in StatusWords, fault \in Faults(d),
          garbage \in IF RegGuard(h, d) THEN Garbages(d) ELSE {0, STAT_LINK_UP} :
         InferReturns("get_device_info", h, d, info, NULL, 0, Never,
                      GetDeviceInfo(DeviceShows(InferState(info), d, w), h, d,
                                    fault, garbage))

\* ------------------------------------------------------ files and batches
\* An image file as kc705_load_image meets it: its fopen fails ("missing"),
\* its fread returns fewer than 150528 bytes ("short"), it holds a whole image
\* ("image"), or it does and the malloc before the fread fails ("nomem").
FileKinds == {"image", "short", "missing", "nomem"}

\* The malloc of kc705_load_image fails for these files; the second is a
\* short file met when no memory is left.
NoMemory(file) == file \in {"nomem", "short_nomem"}

\* kc705_load_image: the buffer returned (NULL, or the pattern of the file's
\* bytes), and the buffers it got from malloc and gave to free.  The malloc
\* is not checked, so that without memory fread is handed a NULL buffer
\* (fault: that kills the process; otherwise it reads nothing, and the
\* free(NULL) that follows does nothing).
LoadImage(file, fault) ==
    \* if (!fp) return NULL
    IF file = "missing"
    THEN [data |-> NULL, ev |-> {}, crashed |-> FALSE, allocs |-> 0, frees |-> 0]
    \* image_data = malloc(image_size) returned NULL; fread(NULL, ...)
    ELSE IF NoMemory(file)
    THEN [data |-> NULL, ev |-> {"fread_null_buffer"}, crashed |-> fault,
          allocs |-> 0, frees |-> 0]
    \* fread(...) != image_size: free(image_data); fclose(fp); return NULL
    ELSE IF file = "short"
    THEN [data |-> NULL, ev |-> {}, crashed |-> FALSE, allocs |-> 1, frees |-> 1]
    ELSE [data |-> 1, ev |-> {}, crashed |-> FALSE, allocs |-> 1, frees |-> 0]

\* width * height * channels as kc705_load_image sets them.
LoadedSize == 224 * 224 * 3

\* kc705_free_image(image_data) after kc705_infer has returned.
FreeImage(st) == IF st.crashed THEN st ELSE [st EXCEPT !.frees = @ + 1]

\* kc705_infer_file
InferFile(st, h, d, file, s, raw, fault, garbage, nomem_fault) ==
    LET image == LoadImage(file, nomem_fault)
        got   == [st EXCEPT !.allocs = @ + image.allocs,
                            !.frees = @ + image.frees,
                            !.ev = @ \cup image.ev]
    IN  IF image.crashed
        THEN [got EXCEPT !.crashed = TRUE]
        \* if (!image_data) return KC705_ERROR
        ELSE IF image.data = NULL
        THEN [got EXCEPT !.ret = KC705_ERROR]
        ELSE FreeImage(Infer(got, h, d, image.data, LoadedSize, s, raw,
                             fault, garbage))

\* What the call read of the handle: nothing when the image was not loaded.
FileLoads(file) == file = "image"

InferFileReturns(h, d, file, result, s, st) ==
    /\ regs' = st.regs
    /\ img' = st.img
    /\ crashed' = st.crashed
    /\ last' = [op |-> "infer_file", h |-> h, file |-> file, result |-> result,
                ret |-> Ret(st), log |-> st.log, rec |-> st.rec,
                checks |-> st.checks, rets |-> st.rets,
                allocs |-> st.allocs, frees |-> st.frees,
                sched |-> IF st.checks = 0 THEN Never ELSE s,
                is_open |-> d.is_open, reg_base |-> d.reg_base,
                mem_base |-> d.mem_base,
                ub |-> (IF FileLoads(file) THEN UafRead(h) ELSE {}) \cup st.ev]
    /\ dev' = IF h # NULL /\ heap[h] = "live"
              THEN [dev EXCEPT ![h] = DeviceAfter(d, st)]
              ELSE dev
    /\ UNCHANGED <<heap, held, fds, maps, class_buffer>>

FileCases == FileKinds \cup {"short_nomem"}

kc705_infer_file(h, file, result) ==
    /\ Running
    /\ \E d \in IF FileLoads(file) THEN ObservedByInfer(h) ELSE ObservedArg(h) :
       \E s \in IF FileLoads(file) /\ UploadGuard(h, d, 1) /\ ~SizeCheck(LoadedSize)
                     /\ result # <<>>
               THEN Scheds ELSE {Never},
          fault \in IF FileLoads(file) THEN Faults(d) ELSE {FALSE},
          garbage \in IF FileLoads(file) THEN Garbages(d) ELSE {0},
          nomem_fault \in IF NoMemory(file) THEN BOOLEAN ELSE {FALSE} :
         \E raw \in Raws(s) :
            InferFileReturns(h, d, file, result, s,
                             InferFile(InferState(result), h, d, file, s, raw,
                                       fault, garbage, nomem_fault))

\* The results argument of kc705_infer_batch: NULL, or an array of records.
ResultsArg(null, slots) == [null |-> null, slots |-> slots]

\* &results[processed]
SlotPointer(results, processed) ==
    IF results.null THEN <<>> ELSE <<results.slots[processed + 1]>>

\* if (ret == KC705_SUCCESS) processed++
CountedAlways(st) == TRUE

Counted(st) == ~st.crashed /\ st.ret = KC705_SUCCESS

\* One pass of the loop of kc705_infer_batch, for image_files[i].  b: the call
\* state, the results array, processed, and the passes made (items).
BatchItem(b, i, h, d, files, s, raw, fault, garbage, nomem_fault) ==
    LET slot == SlotPointer(b.results, b.processed)
        st == InferFile([b.st EXCEPT !.rec = slot, !.ret = KC705_SUCCESS,
                                     !.rets = <<>>],
                        h, d, files[i], s, raw, fault, garbage, nomem_fault)
    IN  [st |-> st,
         results |-> IF st.rec = <<>> THEN b.results
                     ELSE [b.results EXCEPT !.slots[b.processed + 1] = st.rec[1]],
         processed |-> IF Counted(st) THEN b.processed + 1 ELSE b.processed,
         items |-> Append(b.items,
                          [i |-> i, file |-> files[i], ret |-> Ret(st),
                           slot |-> b.processed, rec |-> st.rec,
                           wrote |-> st.rec # slot])]

\* for (int i = 0; i < num_images; i++)
RECURSIVE BatchLoop(_, _, _, _, _, _, _, _, _, _)
BatchLoop(b, i, h, d, files, s, raw, fault, garbage, nomem_fault) ==
    IF i > Len(files) \/ b.st.crashed THEN b
    ELSE BatchLoop(BatchItem(b, i, h, d, files, s, raw, fault, garbage, nomem_fault),
                   i + 1, h, d, files, s, raw, fault, garbage, nomem_fault)

\* kc705_infer_batch, with num_images = Len(files).
InferBatch(st, h, d, files, results, s, raw, fault, garbage, nomem_fault) ==
    BatchLoop([st |-> st, results |-> results, processed |-> 0, items |-> <<>>],
              1, h, d, files, s, raw, fault, garbage, nomem_fault)

MaxBatch == 2

\* The file lists handed to a batch: every list of up to MaxBatch files, and
\* five files of which the third cannot be loaded.
RECURSIVE FilesUpTo(_)
FilesUpTo(n) ==
    IF n = 0 THEN {<<>>}
    ELSE FilesUpTo(n - 1) \cup
         {Append(f, k) : f \in {g \in FilesUpTo(n - 1) : Len(g) = n - 1},
                         k \in FileKinds}

FileLists ==
    FilesUpTo(MaxBatch) \cup {<<"image", "image", "missing", "image", "image">>}

ResultsArgs(n) ==
    {ResultsArg(TRUE, <<>>), ResultsArg(FALSE, [j \in 1..n |-> ClearedRecord])}

\* Some file of the batch gets as far as the upload's data transfer: only then
\* do the outcomes of undefined accesses matter.
BatchUploads(h, d, files) ==
    /\ UploadGuard(h, d, 1)
    /\ ~SizeCheck(LoadedSize)
    /\ \E i \in DOMAIN files : files[i] = "image"

BatchReturns(h, d, files, results, s, b) ==
    /\ regs' = b.st.regs
    /\ img' = b.st.img
    /\ crashed' = b.st.crashed
    /\ last' = [op |-> "infer_batch", h |-> h, files |-> files,
                result |-> results, results |-> b.results,
                ret |-> IF b.st.crashed THEN NoReturn ELSE b.processed,
                items |-> b.items, log |-> b.st.log, sched |-> s,
                is_open |-> d.is_open, reg_base |-> d.reg_base,
                mem_base |-> d.mem_base,
                ub |-> (IF \E j \in DOMAIN b.items : b.items[j].file = "image"
                        THEN UafRead(h) ELSE {}) \cup b.st.ev]
    /\ UNCHANGED <<heap, dev, held, fds, maps, class_buffer>>

kc705_infer_batch(h, files, results) ==
    /\ Running
    /\ \E d \in ObservedArg(h) :
       \E s \in IF RegGuard(h, d) THEN {Always, Never} ELSE {Never},
          fault \in IF BatchUploads(h, d, files) THEN Faults(d) ELSE {FALSE},
          garbage \in IF BatchUploads(h, d, files) THEN Garbages(d) ELSE {0},
          nomem_fault \in IF \E i \in DOMAIN files : files[i] = "nomem"
                          THEN BOOLEAN ELSE {FALSE} :
         BatchReturns(h, d, files, results, s,
                      InferBatch(InferState(<<>>), h, d, files, results, s,
                                 SimulatedRecord, fault, garbage, nomem_fault))

\* -------------------------------------------------------------- class names
imagenet_classes ==
    <<"tench", "goldfish", "great white shark", "tiger shark", "hammerhead",
      "electric ray", "stingray", "cock", "hen", "ostrich">>

\* The pointers kc705_get_class_name returns: to one of the literals, to the
\* literal "unknown", or to its static buffer.
PtrLiteral(i) == <<"literal", i>>
PtrUnknown    == <<"unknown", 0>>
PtrBuffer     == <<"buffer", 0>>

\* The string a caller reads through such a pointer, given the buffer's content.
Deref(p, buffer) ==
    IF p[1] = "buffer" THEN buffer
    ELSE IF p[1] = "literal" THEN imagenet_classes[p[2] + 1]
    ELSE "unknown"

DigitChar == <<"0", "1", "2", "3", "4", "5", "6", "7", "8", "9">>

\* printf's %d of a non-negative int.
RECURSIVE Decimal(_)
Decimal(n) ==
    IF n < 10 THEN DigitChar[n + 1]
    ELSE Decimal(n \div 10) \o DigitChar[(n % 10) + 1]

\* snprintf(class_buffer, sizeof(class_buffer), "class_%d", class_id): the
\* text, cut to what fits the buffer with its terminator.
CLASS_BUFFER_SIZE == 32

Snprintf(class_id) ==
    LET text == "class_" \o Decimal(class_id)
    IN IF Len(text) < CLASS_BUFFER_SIZE THEN text
       ELSE "class_" \o Decimal(class_id \div 10 ^ (Len(text) - CLASS_BUFFER_SIZE + 1))

IsUnknownClassOffByOne(class_id) == class_id > 1000

IsUnknownClass(class_id) == class_id >= 1000

\* The whole call: the pointer returned and the static buffer afterwards.
ClassName(class_id, buffer) ==
    IF IsUnknownClass(class_id) THEN [ptr |-> PtrUnknown, buffer |-> buffer]
    ELSE IF class_id < 10 THEN [ptr |-> PtrLiteral(class_id), buffer |-> buffer]
    ELSE [ptr |-> PtrBuffer, buffer |-> Snprintf(class_id)]

ClassIds == {0, 1, 9, 10, 11, 999, 1000, 9999}

kc705_get_class_name(class_id) ==
    /\ Running
    /\ LET r == ClassName(class_id, class_buffer)
       IN /\ class_buffer' = r.buffer
          /\ last' = [op |-> "class_name", class_id |-> class_id, ptr |-> r.ptr,
                      text |-> Deref(r.ptr, r.buffer), ret |-> KC705_SUCCESS,
                      ub |-> {}]
    /\ UNCHANGED <<heap, dev, held, fds, maps, regs, img, crashed>>

\* --------------------------------------------------------------- the device
\* The accelerator raises or clears DONE in its STATUS register on its own.
DeviceStep(d) ==
    /\ Running
    /\ \E v \in {0, STAT_DONE} :
        /\ regs[d][REG_STATUS] # v
        /\ regs' = [regs EXCEPT ![d][REG_STATUS] = v]
    /\ last' = [op |-> "device", ret |-> KC705_SUCCESS, ub |-> {}]
    /\ UNCHANGED <<heap, dev, held, fds, maps, img, crashed, class_buffer>>

\* The device's transactions.  starts: the START commands written to CONTROL;
\* begun: the last of them the device has taken up; done_for: the transaction
\* whose completion the DONE bit of STATUS shows (0: DONE is clear).  The
\* device raises DONE when it finishes a transaction and clears it only when
\* it takes up the next START, at a step of its own.
NoTransaction == [starts |-> 0, begun |-> 0, done_for |-> 0]

\* The result words the device leaves at KC705_RESULT_BASE for transaction n.
TxnRecords == <<SimulatedRecord, <<1042, 10001, 7>>, <<2147483647, 16777217, 0>>>>
TxnWords(n) == TxnRecords[((n - 1) % Len(TxnRecords)) + 1]

\* Between two calls the device takes up the START that is waiting ...
DeviceBegins(d) ==
    /\ Running
    /\ txn[d].begun < txn[d].starts
    /\ txn' = [txn EXCEPT ![d].begun = txn[d].starts, ![d].done_for = 0]
    /\ regs' = [regs EXCEPT ![d][REG_STATUS] = 0]
    /\ last' = [op |-> "device", ret |-> KC705_SUCCESS, ub |-> {}]
    /\ UNCHANGED <<heap, dev, held, fds, maps, img, crashed, class_buffer>>

\* ... and finishes the transaction it is working on.
DeviceFinishes(d) ==
    /\ Running
    /\ txn[d].begun = txn[d].starts
    /\ txn[d].done_for # txn[d].begun
    /\ txn' = [txn EXCEPT ![d].done_for = txn[d].begun]
    /\ regs' = [regs EXCEPT ![d][REG_STATUS] = STAT_DONE]
    /\ last' = [op |-> "device", ret |-> KC705_SUCCESS, ub |-> {}]
    /\ UNCHANGED <<heap, dev, held, fds, maps, img, crashed, class_buffer>>

\* The START that kc705_start_inference wrote reached device d.
WroteStart(call) ==
    /\ call.ub = {}
    /\ \E i \in DOMAIN call.log :
            /\ call.log[i][1] = "w"
            /\ call.log[i][2] = REG_CONTROL
            /\ (call.log[i][3] \div CTRL_START) % 2 = 1

\* What the device did during a kc705_infer call.  The call writes START
\* and reads STATUS at once (it neither clears DONE nor waits for it to
\* drop), so that either
\*   - the device has not taken up the START when STATUS is first read, and
\*     the read finds the DONE, and the result words, of the transaction
\*     before (stale), or
\*   - the device took up the START before that read, clearing DONE, and
\*     raised DONE again when it finished, if it finished during the call.
DeviceDuringInfer(d) ==
    IF ~WroteStart(last') THEN txn' = txn
    ELSE \E stale \in {b \in BOOLEAN : b => txn[d].done_for # 0} :
            IF stale
            THEN /\ last'.sched = Always
                 /\ last'.words = TxnWords(txn[d].done_for)
                 /\ txn' = [txn EXCEPT ![d].starts = @ + 1]
            ELSE /\ last'.sched # Sched(1, 1)
                 /\ last'.words \in {<<>>, TxnWords(txn[d].starts + 1)}
                 /\ txn' = [txn EXCEPT
                        ![d] = [starts |-> txn[d].starts + 1,
                                begun |-> txn[d].starts + 1,
                                done_for |-> IF IsDone(TRUE, regs'[d][REG_STATUS])
                                             THEN txn[d].starts + 1 ELSE 0]]

\* The callers: two threads of one process.
Threads == {1, 2}

Init ==
    /\ heap = [h \in Handles |-> "free"]
    /\ dev = [h \in Handles |-> ZeroDevice]
    /\ held = {}
    /\ fds = {}
    /\ maps = [a \in Addrs |-> NoMap]
    /\ regs = [d \in DevIdx |-> [o \in TrackedRegs |-> 0]]
    /\ img = [d \in DevIdx |-> [i \in 0..(TrackLen - 1) |-> 0]]
    /\ crashed = FALSE
    /\ class_buffer = ""
    /\ thr = [t \in Threads |-> [pc |-> "init", h |-> NULL, class_id |-> 0, kept |-> <<>>]]
    /\ txn = [d \in DevIdx |-> NoTransaction]
    /\ last = [op |-> "none", ret |-> 0, ub |-> {}]

\* Device lifecycle: every sequence of open and close calls.
NextLifecycle ==
    \/ \E idx \in -1..MaxDevices : kc705_open_device(idx) /\ UNCHANGED <<thr, txn>>
    \/ \E h \in HandleArgs : kc705_close(h) /\ UNCHANGED <<thr, txn>>

SpecLifecycle == Init /\ [][NextLifecycle]_vars

\* The register layer, driven through one handle at a time, with the device
\* changing its status in between.
NoLiveHandle == \A h \in Handles : heap[h] = "free"

NextRegs ==
    \/ \E idx \in 0..MaxDevices : NoLiveHandle /\ kc705_open_device(idx) /\ UNCHANGED <<thr, txn>>
    \/ \E h \in HandleArgs : kc705_close(h) /\ UNCHANGED <<thr, txn>>
    \/ \E h \in HandleArgs, off \in ApiOffsets : kc705_read_reg(h, off) /\ UNCHANGED <<thr, txn>>
    \/ \E h \in HandleArgs, off \in ApiOffsets, val \in ApiWords :
            kc705_write_reg(h, off, val) /\ UNCHANGED <<thr, txn>>
    \/ \E d \in DevIdx : DeviceStep(d) /\ UNCHANGED <<thr, txn>>

SpecRegs == Init /\ [][NextRegs]_vars

\* The upload transports: a device is opened, takes uploads of every buffer
\* and size and reads of the image-size register, and is closed.
NextUpload ==
    \/ \E idx \in 0..MaxDevices : held = {} /\ kc705_open_device(idx) /\ UNCHANGED <<thr, txn>>
    \/ \E h \in HandleArgs : kc705_close(h) /\ UNCHANGED <<thr, txn>>
    \/ \E h \in HandleArgs, data \in {NULL} \cup Patterns, size \in Sizes :
            kc705_upload_image(h, data, size) /\ UNCHANGED <<thr, txn>>
    \/ \E h \in HandleArgs : kc705_read_reg(h, REG_IMAGE_SIZE) /\ UNCHANGED <<thr, txn>>

SpecUpload == Init /\ [][NextUpload]_vars

\* Inference: a device is opened, asked for results (waiting or not) and for
\* whole inferences against every device behaviour followed, and closed.
NextInfer ==
    \/ held = {} /\ kc705_open_device(0) /\ UNCHANGED <<thr, txn>>
    \/ \E h \in HandleArgs : kc705_close(h) /\ UNCHANGED <<thr, txn>>
    \/ \E h \in HandleArgs, result \in ResultArgs : kc705_get_result(h, result) /\ UNCHANGED <<thr, txn>>
    \/ \E h \in HandleArgs, result \in ResultArgs : kc705_get_result_nowait(h, result) /\ UNCHANGED <<thr, txn>>
    \/ \E h \in HandleArgs, data \in {NULL, 1}, size \in InferSizes,
          result \in ResultArgs : kc705_infer(h, data, size, result) /\ UNCHANGED <<thr, txn>>

SpecInfer == Init /\ [][NextInfer]_vars

\* Class names: a caller asks for names, with or without an open device, and
\* keeps the pointers it was given.
MaxKept == 2

Keep(kept, entry) ==
    IF Len(kept) < MaxKept THEN Append(kept, entry) ELSE Append(Tail(kept), entry)

\* Caller t keeps the pointer the call just made returned, with what it read
\* through it on return.
KeepsName(t) ==
    thr' = [thr EXCEPT ![t].kept =
              Keep(@, [class_id |-> last'.class_id, ptr |-> last'.ptr,
                       text |-> last'.text])]

NextNames ==
    \/ held = {} /\ kc705_open_device(0) /\ UNCHANGED <<thr, txn>>
    \/ \E h \in HandleArgs : kc705_close(h) /\ UNCHANGED <<thr, txn>>
    \/ \E class_id \in ClassIds : kc705_get_class_name(class_id) /\ KeepsName(1)
         /\ UNCHANGED txn

SpecNames == Init /\ [][NextNames]_vars

\* Status, control and information: one device is opened and driven through
\* every function that takes a handle, and closed.
NextControl ==
    \/ held = {} /\ kc705_open_device(0) /\ UNCHANGED <<thr, txn>>
    \/ \E h \in HandleArgs : kc705_close(h) /\ UNCHANGED <<thr, txn>>
    \/ \E h \in HandleArgs : kc705_read_reg(h, REG_STATUS) /\ UNCHANGED <<thr, txn>>
    \/ \E h \in HandleArgs : kc705_write_reg(h, REG_CONTROL, 0) /\ UNCHANGED <<thr, txn>>
    \/ \E h \in HandleArgs : kc705_reset(h) /\ UNCHANGED <<thr, txn>>
    \/ \E h \in HandleArgs : kc705_is_done(h) /\ UNCHANGED <<thr, txn>>
    \/ \E h \in HandleArgs : kc705_start_inference(h) /\ UNCHANGED <<thr, txn>>
    \/ \E h \in HandleArgs, size \in {MaxSize, IMAGE_SIZE} :
            kc705_upload_image(h, 1, size) /\ UNCHANGED <<thr, txn>>
    \/ \E h \in HandleArgs : kc705_get_result(h, <<ClearedRecord>>) /\ UNCHANGED <<thr, txn>>
    \/ \E h \in HandleArgs :
            kc705_get_result_nowait(h, <<ClearedRecord>>) /\ UNCHANGED <<thr, txn>>
    \/ \E h \in HandleArgs, size \in {MaxSize, IMAGE_SIZE} :
            kc705_infer(h, 1, size, <<ClearedRecord>>) /\ UNCHANGED <<thr, txn>>
    \/ \E h \in HandleArgs, info \in InfoArgs :
            kc705_get_device_info(h, info) /\ UNCHANGED <<thr, txn>>

SpecControl == Init /\ [][NextControl]_vars

\* Batches: a device is opened, handed lists of files with a results array or
\* without, against a device that reports DONE or never does, and closed.
NextBatch ==
    \/ held = {} /\ kc705_open_device(0) /\ UNCHANGED <<thr, txn>>
    \/ \E h \in HandleArgs : kc705_close(h) /\ UNCHANGED <<thr, txn>>
    \/ \E h \in HandleArgs, files \in FileLists :
         \E results \in ResultsArgs(Len(files)) :
            kc705_infer_batch(h, files, results) /\ UNCHANGED <<thr, txn>>

SpecBatch == Init /\ [][NextBatch]_vars

\* One device: open / close / kc705_infer_file on every kind of file.
NextFile ==
    \/ held = {} /\ kc705_open_device(0) /\ UNCHANGED <<thr, txn>>
    \/ \E h \in HandleArgs : kc705_close(h) /\ UNCHANGED <<thr, txn>>
    \/ \E h \in HandleArgs, file \in FileCases, result \in ResultArgs :
         kc705_infer_file(h, file, result) /\ UNCHANGED <<thr, txn>>

SpecFile == Init /\ [][NextFile]_vars

\* One device and its transactions: open / close / kc705_infer of an image
\* the upload accepts, and the device's own steps between the calls.
MaxStarts == 2

NextStale ==
    \/ held = {} /\ kc705_open_device(0) /\ UNCHANGED <<thr, txn>>
    \/ \E h \in HandleArgs : kc705_close(h) /\ UNCHANGED <<thr, txn>>
    \/ \E h \in held, result \in {<<ClearedRecord>>, <<EarlierRecord>>} :
         /\ txn[0].starts < MaxStarts
         /\ kc705_infer(h, 1, MaxSize, result)
         /\ DeviceDuringInfer(0)
         /\ UNCHANGED thr
    \/ DeviceBegins(0) /\ UNCHANGED thr
    \/ DeviceFinishes(0) /\ UNCHANGED thr

SpecStale == Init /\ [][NextStale]_vars

\* Threads: each thread opens its own handle (on its own device where there
\* is one), uploads an image, starts the inference, waits for the result,
\* asks for the name of the class and keeps it, and closes its handle.  A
\* call is one step; the threads' calls interleave freely.
ThreadDevice(t) == (t - 1) % MaxDevices

Moves(t, pc) == thr' = [thr EXCEPT ![t].pc = pc]

AfterCall(pc) == IF last'.ret = KC705_SUCCESS THEN pc ELSE "closing"

ThreadOpens(t) ==
    /\ thr[t].pc = "init"
    /\ kc705_open_device(ThreadDevice(t))
    /\ thr' = [thr EXCEPT ![t].h = last'.ret,
                          ![t].pc = IF last'.ret = NULL THEN "done" ELSE "opened"]

ThreadUploads(t) ==
    /\ thr[t].pc = "opened"
    /\ kc705_upload_image(thr[t].h, 1, MaxSize)
    /\ Moves(t, AfterCall("uploaded"))

ThreadStarts(t) ==
    /\ thr[t].pc = "uploaded"
    /\ kc705_start_inference(thr[t].h)
    /\ Moves(t, AfterCall("started"))

ThreadGetsResult(t) ==
    /\ thr[t].pc = "started"
    /\ kc705_get_result(thr[t].h, <<ClearedRecord>>)
    /\ thr' = [thr EXCEPT ![t].class_id = last'.rec[1].class_id,
                          ![t].pc = AfterCall("got")]

ThreadGetsName(t) ==
    /\ thr[t].pc = "got"
    /\ kc705_get_class_name(thr[t].class_id)
    /\ thr' = [thr EXCEPT ![t].kept =
                            Keep(@, [class_id |-> last'.class_id,
                                     ptr |-> last'.ptr, text |-> last'.text]),
                          ![t].pc = "named"]

ThreadCloses(t) ==
    /\ thr[t].pc \in {"named", "closing"}
    /\ kc705_close(thr[t].h)
    /\ Moves(t, "done")

NextThreads ==
    \/ \E t \in Threads : ThreadOpens(t) /\ UNCHANGED txn
    \/ \E t \in Threads : ThreadUploads(t) /\ UNCHANGED txn
    \/ \E t \in Threads : ThreadStarts(t) /\ UNCHANGED txn
    \/ \E t \in Threads : ThreadGetsResult(t) /\ UNCHANGED txn
    \/ \E t \in Threads : ThreadGetsName(t) /\ UNCHANGED txn
    \/ \E t \in Threads : ThreadCloses(t) /\ UNCHANGED txn

SpecThreads == Init /\ [][NextThreads]_vars

\* ================================================================ claims

LiveHandles == {h \in Handles : heap[h] = "live"}

\* The mappings and descriptors the live handles own.
OwnedMaps == UNION {{dev[h].reg_base, dev[h].mem_base} \cap Addrs : h \in LiveHandles}
OwnedFds  == {dev[h].pci_fd : h \in LiveHandles} \cap Fds
LiveMaps  == {a \in Addrs : maps[a].bar # "none"}

\* C1: every handle the caller holds whose is_open is true has its register
\* window mapped and its data window either absent (NULL) or mapped: never a
\* failed (MAP_FAILED) or released window.  (Stated for runs without undefined
\* behaviour.)
C1_FullyOpenOrClosed ==
    \A h \in held :
        (last.ub = {} /\ heap[h] = "live" /\ dev[h].is_open) =>
            /\ Mapped(maps, dev[h].reg_base)
            /\ dev[h].mem_base = NULL \/ Mapped(maps, dev[h].mem_base)
            /\ dev[h].pci_fd \in fds

\* C2: kc705_close(NULL) and kc705_close of a handle that was already closed
\* return KC705_INVALID_PARAM without side effects: nothing is unmapped, closed
\* or freed twice and released handle memory is not read.
C2_CloseIdempotent ==
    (last.op = "close" /\ ~last.was_live) =>
        /\ last.ret = KC705_INVALID_PARAM
        /\ last.ub = {}

\* C3: kc705_close of an open handle returns KC705_SUCCESS and releases the
\* register mapping, the data mapping when there is one, the descriptor and
\* the handle; after any sequence of opens and of closes of open handles the
\* live mappings and descriptors are exactly those the open handles own, each
\* owned once.
C3_CloseReleasesAll ==
    /\ (last.op = "close" /\ last.was_live) =>
            /\ last.ret = KC705_SUCCESS
            /\ heap[last.h] = "free"
            /\ last.ub = {}
    /\ (last.ub = {} /\ ~crashed) =>
            /\ LiveMaps = OwnedMaps
            /\ fds = OwnedFds
            /\ \A h \in LiveHandles :
                    /\ dev[h].pci_fd \in Fds
                    /\ dev[h].reg_base \in Addrs
                    /\ dev[h].reg_base # dev[h].mem_base
                    /\ \A g \in LiveHandles \ {h} :
                            /\ dev[g].pci_fd # dev[h].pci_fd
                            /\ {dev[g].reg_base, dev[g].mem_base} \cap Addrs
                               \cap {dev[h].reg_base, dev[h].mem_base} = {}

\* A handle with both windows mapped was closed while another one stays open.
C3_Witness ==
    /\ last.op = "close"
    /\ last.was_live
    /\ last.ret = KC705_SUCCESS
    /\ Cardinality(last.owned.maps) = 2
    /\ LiveHandles # {}

\* C4: when opening or mapping the register window fails, kc705_open_device
\* returns no handle, map_pci_device reports KC705_ERROR, and the descriptors,
\* mappings and heap are what they were before the call.
C4_OpenFailureReleases ==
    [][(last'.op = "open" /\ last'.stage = "map_failed") =>
            /\ last'.ret = NULL
            /\ last'.map_ret = KC705_ERROR
            /\ fds' = fds
            /\ maps' = maps
            /\ heap' = heap
            /\ held' = held]_vars

\* The register mmap of a discovered device failed after its descriptor had
\* been opened.
C4_Witness ==
    /\ last.op = "open"
    /\ last.stage = "map_failed"
    /\ last.in_range
    /\ last.ub = {}
    /\ \E h \in Handles :
            /\ heap[h] = "free"
            /\ dev[h].reg_base = MAP_FAILED
            /\ dev[h].pci_fd \in Fds

\* C5: when discovery finds no device, or the index is outside [0, n),
\* negative indices included, kc705_open_device returns no handle, reads no
\* entry of the path list and acquires nothing.
C5_OpenRejectsBadIndex ==
    (last.op = "open" /\ (~last.found \/ ~last.in_range)) =>
        /\ last.ret = NULL
        /\ ~last.malloced
        /\ last.path_reads = {}
        /\ last.ub = {}

\* The device behind the register window of the last call's handle.
LastDevice == maps[dev[last.h].reg_base].dev

\* C6: on a handle opened without a usable data window (resource1 missing, or
\* its mmap failed), kc705_upload_image never dereferences the data-window
\* pointer.
C6_NoDataWindowMeansRegisterPath ==
    (/\ last.op = "upload"
     /\ last.h # NULL
     /\ heap[last.h] = "live"
     /\ ~Mapped(maps, dev[last.h].mem_base)) =>
        "data_window_bad_pointer" \notin last.ub

\* C7: kc705_read_reg and kc705_write_reg return KC705_INVALID_PARAM exactly
\* when the handle is NULL or the call finds is_open false or reg_base NULL,
\* and then access nothing and leave the output word and the device alone;
\* otherwise, on a live handle and an offset inside the window, they return
\* KC705_SUCCESS after exactly one access at that offset: a write stores the
\* word, a read returns the stored word, and a read that directly follows a
\* write of the same offset returns the written word.
C7_RegisterAccess ==
    [][(last'.op \in {"read_reg", "write_reg"}) =>
        LET bad == last'.h = NULL \/ ~last'.is_open \/ last'.reg_base = NULL
            ok  == /\ ~bad
                   /\ heap[last'.h] = "live"
                   /\ last'.off + 4 <= REG_WINDOW_SIZE
            d   == maps[dev[last'.h].reg_base].dev
        IN  /\ (last'.ret = KC705_INVALID_PARAM) <=> bad
            /\ bad => /\ last'.log = <<>>
                      /\ regs' = regs
                      /\ img' = img
                      /\ last'.op = "read_reg" => last'.out = <<>>
            /\ (ok /\ last'.op = "write_reg") =>
                    /\ last'.ret = KC705_SUCCESS
                    /\ last'.log = << <<"w", last'.off, last'.val>> >>
                    /\ regs' = [regs EXCEPT ![d][last'.off] = last'.val]
                    /\ img' = img
            /\ (ok /\ last'.op = "read_reg") =>
                    /\ last'.ret = KC705_SUCCESS
                    /\ last'.log = << <<"r", last'.off>> >>
                    /\ last'.out = <<regs[d][last'.off]>>
                    /\ regs' = regs
                    /\ img' = img
                    /\ (/\ last.op = "write_reg"
                        /\ last.ret = KC705_SUCCESS
                        /\ last.h = last'.h
                        /\ last.off = last'.off) => last'.out = <<last.val>>
    ]_vars

\* A read returned the word START|IRQ_EN that a write had put in CONTROL.
C7_Witness ==
    /\ last.op = "read_reg"
    /\ last.ret = KC705_SUCCESS
    /\ last.off = REG_CONTROL
    /\ last.out = <<CTRL_START + CTRL_IRQ_EN>>

\* C8: kc705_upload_image with size > 4096 returns KC705_INVALID_PARAM and
\* writes no byte of the data window and no register, and makes no register
\* call, whichever transport the handle would use.
C8_OversizeRejected ==
    [][(last'.op = "upload" /\ last'.size > UPLOAD_LIMIT) =>
            /\ last'.ret = KC705_INVALID_PARAM
            /\ last'.log = <<>>
            /\ regs' = regs
            /\ img' = img
            /\ crashed' = crashed]_vars

\* A 4097-byte buffer was refused on an open handle that had taken an upload
\* before (IMAGE_SIZE is not zero) and has a data window.
C8_Witness ==
    /\ last.op = "upload"
    /\ last.size = UPLOAD_LIMIT + 1
    /\ last.h # NULL
    /\ heap[last.h] = "live"
    /\ last.data # NULL
    /\ last.ret = KC705_INVALID_PARAM
    /\ Mapped(maps, dev[last.h].mem_base)
    /\ regs[LastDevice][REG_IMAGE_SIZE] # 0

\* C9: on an open handle, with a non-null buffer and a size in 0..4096,
\* kc705_upload_image returns KC705_SUCCESS and the IMAGE_SIZE register then
\* holds that size, on either transport.
C9_UploadSetsImageSize ==
    (/\ last.op = "upload"
     /\ last.h # NULL
     /\ heap[last.h] = "live"
     /\ last.data # NULL
     /\ last.size <= UPLOAD_LIMIT) =>
        /\ last.ret = KC705_SUCCESS
        /\ regs[LastDevice][REG_IMAGE_SIZE] = last.size

\* C10: after a successful kc705_upload_image of size 0..4096 the image
\* region at 0x1000 holds bytes [0, size) of the buffer, on the shared-memory
\* transport and on the register transport alike, and nothing else of the
\* device changed except the IMAGE_SIZE register.
C10_TransportsEquivalent ==
    [][(/\ last'.op = "upload"
        /\ last'.h # NULL
        /\ heap[last'.h] = "live"
        /\ last'.data # NULL
        /\ last'.size <= UPLOAD_LIMIT
        /\ last'.ret = KC705_SUCCESS) =>
        LET d == maps[dev[last'.h].reg_base].dev
        IN  /\ \A i \in DOMAIN img[d] :
                    img'[d][i] = IF i < last'.size THEN BufByte(last'.data, i)
                                 ELSE img[d][i]
            /\ \A o \in TrackedRegs \ {REG_IMAGE_SIZE} : regs'[d][o] = regs[d][o]
            /\ last'.ub = {}
    ]_vars

\* The last call was made on a handle that is open.
OnLiveHandle == last.h # NULL /\ heap[last.h] = "live"

\* C11: kc705_infer with a NULL handle, a handle it finds not open, or a NULL
\* image buffer returns KC705_INVALID_PARAM at once: no register access, no
\* data-window write, no status read, no sleep, and the device and the
\* caller's record are as before.
C11_InferRejectsBadArgs ==
    [][(/\ last'.op = "infer"
        /\ (last'.h = NULL \/ ~last'.is_open \/ last'.data = NULL)) =>
            /\ last'.ret = KC705_INVALID_PARAM
            /\ last'.log = <<>>
            /\ last'.checks = 0
            /\ last'.sleeps = 0
            /\ last'.rec = last'.result
            /\ regs' = regs
            /\ img' = img]_vars

\* kc705_infer was given a NULL buffer, of a size upload accepts, on an open
\* handle with a record to fill.
C11_Witness ==
    /\ last.op = "infer"
    /\ OnLiveHandle
    /\ last.data = NULL
    /\ last.size <= UPLOAD_LIMIT
    /\ last.result # <<>>
    /\ last.ret = KC705_INVALID_PARAM

\* The places of a call's log that write CONTROL, that write image data or
\* IMAGE_SIZE, and that read STATUS or a result word.
CtrlWrites(log) ==
    {i \in DOMAIN log : log[i][1] = "w" /\ log[i][2] = REG_CONTROL}
UploadWrites(log) ==
    {i \in DOMAIN log : log[i][1] = "m" \/ (log[i][1] = "w" /\ log[i][2] # REG_CONTROL)}
StatusPolls(log) == {i \in DOMAIN log : log[i][1] = "poll"}
ResultReads(log) == {i \in DOMAIN log : log[i][1] \in {"r", "mr"}}

\* C12: in a kc705_infer call on an open handle, when the upload returned
\* KC705_SUCCESS there is exactly one write to CONTROL, of START|IRQ_EN, after
\* every image and IMAGE_SIZE write and before every STATUS read, also when
\* the call ends in KC705_TIMEOUT; when the upload did not return
\* KC705_SUCCESS there is no CONTROL write and no STATUS read.
C12_UploadStartPoll ==
    (last.op = "infer" /\ OnLiveHandle) =>
        IF last.rets # <<>> /\ last.rets[1] = KC705_SUCCESS
        THEN /\ Cardinality(CtrlWrites(last.log)) = 1
             /\ \A i \in CtrlWrites(last.log) :
                    /\ last.log[i][3] = CTRL_START + CTRL_IRQ_EN
                    /\ \A j \in UploadWrites(last.log) : j < i
                    /\ \A j \in StatusPolls(last.log) \cup ResultReads(last.log) : i < j
             /\ UploadWrites(last.log) # {}
        ELSE /\ CtrlWrites(last.log) = {}
             /\ StatusPolls(last.log) = {}
             /\ last.checks = 0

\* An inference uploaded two bytes through the data window, started the
\* device and timed out.
C12_Witness ==
    /\ last.op = "infer"
    /\ OnLiveHandle
    /\ Mapped(maps, last.mem_base)
    /\ last.size > 0
    /\ last.rets = <<KC705_SUCCESS, KC705_SUCCESS, KC705_TIMEOUT>>
    /\ last.sleeps = TIMEOUT_MS

\* The last call ran the polling loop of kc705_get_result on an open handle.
PolledOnLiveHandle ==
    /\ last.op \in {"get_result", "infer"}
    /\ OnLiveHandle
    /\ last.checks > 0

\* C13: in kc705_get_result a status check that reports DONE ends the polling
\* as done: the three result words are read and KC705_SUCCESS is returned, also
\* when that check is the one made after the 5000th sleep; KC705_TIMEOUT is
\* returned only if no check reported DONE.  (Stated for calls without
\* undefined behaviour.)
C13_DoneEndsPolling ==
    (PolledOnLiveHandle /\ last.ub = {}) =>
        /\ last.saw_done => (last.ret = KC705_SUCCESS /\ Len(last.words) = 3)
        /\ last.ret = KC705_TIMEOUT => ~last.saw_done

\* C14: when the device never sets DONE, kc705_get_result, called directly or
\* by kc705_infer, returns KC705_TIMEOUT after 5000 sleeps, reads no result
\* word through either window and leaves the caller's record as it was; and
\* kc705_get_result on an open handle with a record to fill always polls.
C14_TimeoutLeavesRecord ==
    /\ (PolledOnLiveHandle /\ last.sched = Never) =>
            /\ last.ret = KC705_TIMEOUT
            /\ last.sleeps = TIMEOUT_MS
            /\ last.checks = TIMEOUT_MS + 1
            /\ ResultReads(last.log) = {}
            /\ last.words = <<>>
            /\ last.rec = last.result
    /\ (last.op = "get_result" /\ OnLiveHandle /\ last.result # <<>>) =>
            last.checks > 0

\* kc705_infer timed out on a device that never set DONE, with a record that
\* held an earlier result.
C14_Witness ==
    /\ PolledOnLiveHandle
    /\ last.op = "infer"
    /\ last.sched = Never
    /\ last.result = <<EarlierRecord>>
    /\ last.ret = KC705_TIMEOUT

\* The last call returned a result.
ReturnedResult ==
    /\ last.op \in {"get_result", "get_result_nowait", "infer"}
    /\ last.ret = KC705_SUCCESS

\* C15: every result returned with KC705_SUCCESS has confidence in [0, 1],
\* whatever 32-bit word the device put in the confidence word.  (Stated for
\* calls without undefined behaviour.)
C15_ConfidenceInUnitRange ==
    (ReturnedResult /\ last.ub = {}) =>
        /\ 0 <= last.rec[1].confidence.num
        /\ last.rec[1].confidence.num <= last.rec[1].confidence.den

\* C16: every result returned with KC705_SUCCESS has class_id = word 0 mod
\* 1000 (so class_id < 1000), processing_time_us = word 2 and valid = true,
\* word 0..2 being the result words the call read.
C16_ClassIdReduced ==
    ReturnedResult =>
        /\ Len(last.words) = 3
        /\ last.rec[1].class_id = last.words[1] % NUM_CLASSES
        /\ last.rec[1].class_id < NUM_CLASSES
        /\ last.rec[1].processing_time_us = last.words[3]
        /\ last.rec[1].valid

\* A result was returned for the largest class word followed, read through
\* the data window.
C16_Witness ==
    /\ ReturnedResult
    /\ OnLiveHandle
    /\ last.ub = {}
    /\ last.words[1] = 2147483647
    /\ last.rec[1].class_id = 647

\* C17: on an open device whose STATUS holds DONE, kc705_infer with a
\* 150528-byte buffer returns KC705_SUCCESS and the record {class_id 42,
\* confidence 8734/10000, processing_time_us 1500, valid true} of the
\* simulated device.
C17_SimulatedInference ==
    [][(/\ last'.op = "infer"
        /\ last'.h # NULL
        /\ heap[last'.h] = "live"
        /\ last'.data # NULL
        /\ last'.size = IMAGE_SIZE
        /\ last'.result # <<>>
        /\ regs[maps[dev[last'.h].reg_base].dev][REG_STATUS] = STAT_DONE) =>
            /\ last'.ret = KC705_SUCCESS
            /\ last'.rec = <<[class_id |-> 42,
                              confidence |-> [num |-> 8734, den |-> CONF_SCALE],
                              processing_time_us |-> 1500,
                              valid |-> TRUE]>>]_vars

\* C18: after kc705_get_result, kc705_get_result_nowait or kc705_infer
\* returns, either the code is KC705_SUCCESS and the record holds the four
\* fields of the words read, or the code is an error and the record's valid
\* flag is false, whatever the record held before.
C18_RecordNeverPartial ==
    (/\ last.op \in {"get_result", "get_result_nowait", "infer"}
     /\ OnLiveHandle
     /\ last.result # <<>>
     /\ last.ub = {}
     /\ ~crashed) =>
        IF last.ret = KC705_SUCCESS
        THEN /\ Len(last.words) = 3
             /\ last.rec = <<[class_id |-> ClassOf(last.words[1]),
                              confidence |-> ConfidenceOf(last.words[2]),
                              processing_time_us |-> last.words[3],
                              valid |-> TRUE]>>
        ELSE ~last.rec[1].valid

C20_NowaitNeverSleeps ==
    (/\ last.op = "get_result_nowait"
     /\ OnLiveHandle
     /\ last.result # <<>>
     /\ last.ub = {}) =>
        /\ last.sleeps = 0
        /\ StatusAt(last.sched, 1) = 0 =>
                (last.ret = KC705_TIMEOUT /\ last.checks = 1)
        /\ StatusAt(last.sched, 1) = STAT_DONE =>
                (last.ret = KC705_SUCCESS /\ Len(last.words) = 3)

\* C23: kc705_get_class_name answers every id: below 10 with the fixed literal
\* of that id (tench, goldfish, ..., ostrich), from 10 to 999 with "class_"
\* followed by the id in decimal, from 1000 on with "unknown"; it does so with
\* or without an open device.
C23_ClassNameTotal ==
    last.op = "class_name" =>
        LET id == last.class_id
        IN /\ id >= 1000 => last.text = "unknown"
           /\ (id >= 10 /\ id < 1000) => last.text = "class_" \o ToString(id)
           /\ id < 10 => /\ last.ptr = <<"literal", id>>
                         /\ id = 0 => last.text = "tench"
                         /\ id = 1 => last.text = "goldfish"
                         /\ id = 9 => last.text = "ostrich"

C23_Witness ==
    /\ last.op = "class_name"
    /\ last.class_id >= 10 /\ last.class_id < 1000
    /\ held = {}

\* C24: a string kc705_get_class_name returned keeps its content across later
\* calls: every pointer a caller keeps still reads what it read on return.
C24_NameKeepsContent ==
    \A t \in Threads : \A i \in DOMAIN thr[t].kept :
        Deref(thr[t].kept[i].ptr, class_buffer) = thr[t].kept[i].text

\* C26: kc705_reset on an open handle makes exactly two register accesses,
\* both writes to CONTROL, of RESET (0x2) and then of 0, with one 1 ms delay
\* between them and no register read, and returns KC705_SUCCESS with CONTROL
\* holding 0; on a NULL handle or one it finds not open it returns
\* KC705_INVALID_PARAM and writes nothing, the second write not being tried
\* after the first failed.
C26_ResetPulse ==
    last.op = "reset" =>
        /\ OnLiveHandle =>
            /\ last.log = << <<"w", REG_CONTROL, 2>>, <<"sleep", 1000>>,
                             <<"w", REG_CONTROL, 0>> >>
            /\ last.ret = KC705_SUCCESS
            /\ regs[LastDevice][REG_CONTROL] = 0
        /\ (last.h = NULL \/ ~last.is_open) =>
            /\ last.ret = KC705_INVALID_PARAM
            /\ last.log = <<>>
            /\ last.errs = 1

\* A reset of an open device that had taken an upload.
C26_Witness ==
    /\ last.op = "reset"
    /\ OnLiveHandle
    /\ last.ret = KC705_SUCCESS
    /\ regs[LastDevice][REG_CONTROL] = 0
    /\ regs[LastDevice][REG_IMAGE_SIZE] > 0

\* The functions that take a handle without opening or closing it.
HandleUsers ==
    {"read_reg", "write_reg", "reset", "upload", "start_inference", "get_result",
     "get_result_nowait", "infer", "get_device_info"}

\* C27: only kc705_close changes a handle's ownership state: the other
\* functions that take a handle leave every live handle allocated, with
\* is_open, reg_base, mem_base and pci_fd as they were, and the mappings and
\* descriptors as they were; and after kc705_infer returned an error on an open
\* handle, a following kc705_reset returns KC705_SUCCESS and a following
\* kc705_infer is not rejected for its handle.  (Stated for calls without
\* undefined behaviour.)
C27_OnlyCloseChangesOwnership ==
    [][/\ (last'.op \in HandleUsers /\ last'.ub = {}) =>
            /\ \A h \in Handles : heap[h] = "live" =>
                    heap'[h] = "live" /\ dev'[h] = dev[h]
            /\ fds' = fds
            /\ maps' = maps
       /\ (/\ last.op = "infer"
           /\ OnLiveHandle
           /\ last.ret \in {KC705_TIMEOUT, KC705_INVALID_PARAM, KC705_ERROR}
           /\ last'.op \in {"reset", "infer"}
           /\ last'.h = last.h) =>
            /\ last'.is_open
            /\ last'.errs = 0
            /\ last'.op = "reset" => last'.ret = KC705_SUCCESS
            /\ last'.op = "infer" => last'.log # <<>> \/ SizeCheck(last'.size)
      ]_vars

\* kc705_infer timed out on an open handle, which is open afterwards.
C27_Witness ==
    /\ last.op = "infer"
    /\ OnLiveHandle
    /\ last.ret = KC705_TIMEOUT
    /\ last.ub = {}
    /\ dev[last.h].is_open

\* C28: kc705_get_device_info returns KC705_INVALID_PARAM when the handle or
\* the info pointer is NULL; whenever it returns KC705_SUCCESS the snapshot has
\* vendor_id 0x10EE, device_id 0x7024, revision 1, link_speed 5, link_width 8
\* and link_up equal to bit 3 of the STATUS word the call read, the status read
\* having been made and having succeeded.
C28_DeviceInfoSnapshot ==
    last.op = "get_device_info" =>
        /\ (last.h = NULL \/ last.result = <<>>) => last.ret = KC705_INVALID_PARAM
        /\ last.ret = KC705_SUCCESS =>
            /\ last.rec[1].vendor_id = 4334
            /\ last.rec[1].device_id = 28708
            /\ last.rec[1].revision = 1
            /\ last.rec[1].link_speed = 5
            /\ last.rec[1].link_width = 8
            /\ last.log = << <<"r", REG_STATUS>> >>
            /\ last.errs = 0
            /\ "uninitialized_read" \notin last.ub
            /\ last.rec[1].link_up = ((last.words[1] \div 8) % 2 = 1)

\* C29: every register-layer access made by kc705_upload_image,
\* kc705_start_inference, kc705_get_result, kc705_reset, kc705_is_done and
\* kc705_get_device_info on an open handle stays inside the 4096-byte register
\* window: offset + 4 <= 4096.
C29_AccessesInWindow ==
    (/\ last.op \in {"upload", "start_inference", "get_result", "reset",
                     "is_done", "get_device_info"}
     /\ OnLiveHandle) =>
        \A i \in DOMAIN last.log :
            last.log[i][1] \in {"w", "r"} => last.log[i][2] + 4 <= 4096

\* C30: kc705_get_result ends whatever the device does with STATUS: it sleeps
\* at most 5000 times, reads the status at most 5001 times, and leaves the loop
\* at the first status read that reports DONE (no earlier read of the call
\* reported it, and no sleep follows it).
C30_PollingBounded ==
    (last.op = "get_result" /\ OnLiveHandle) =>
        /\ last.sleeps <= 5000
        /\ last.checks <= 5001
        /\ last.checks > 0 =>
            /\ last.sleeps = last.checks - 1
            /\ \A i \in 1..(last.checks - 1) : StatusAt(last.sched, i) # STAT_DONE
            /\ last.saw_done = (StatusAt(last.sched, last.checks) = STAT_DONE)

\* The device raised DONE at the 5000th status read.
C30_Witness ==
    /\ last.op = "get_result"
    /\ OnLiveHandle
    /\ last.sched = Sched(TIMEOUT_MS, Forever)
    /\ last.checks = 5000
    /\ last.sleeps = 4999
    /\ last.saw_done

C22_BatchOfFive ==
    (/\ last.op = "infer_batch"
     /\ OnLiveHandle
     /\ ~crashed
     /\ last.sched = Always
     /\ ~last.result.null
     /\ Cardinality({j \in DOMAIN last.files :
                        last.files[j] \in {"missing", "short"}}) = 1
     /\ \A j \in DOMAIN last.files :
            last.files[j] \in {"missing", "short", "image"}) =>
        last.ret = Len(last.files) - 1

\* C25: distinct handles are independent under concurrency: when two threads
\* each upload, start, get the result, get the class name and close on their
\* own handle, a call made by one thread leaves the other thread's handle and
\* the label strings the other thread holds as they were; no driver call
\* writes process-wide mutable state that another thread reads.
C25_ThreadsIndependent ==
    [][\A t \in Threads, u \in Threads :
          (t # u /\ thr'[t] # thr[t]) =>
              /\ thr'[u] = thr[u]
              /\ thr[u].pc \notin {"init", "done"} =>
                    dev'[thr[u].h] = dev[thr[u].h] /\ heap'[thr[u].h] = "live"
              /\ \A i \in DOMAIN thr[u].kept :
                    Deref(thr[u].kept[i].ptr, class_buffer') =
                        Deref(thr[u].kept[i].ptr, class_buffer)
      ]_vars

\* C31: after kc705_close(handle) has returned KC705_SUCCESS, every later
\* kc705_read_reg, kc705_write_reg, kc705_upload_image,
\* kc705_start_inference, kc705_get_result, kc705_infer and kc705_reset on
\* that handle returns KC705_INVALID_PARAM, reads nothing of the released
\* handle memory and accesses neither unmapped window.
C31_ClosedHandleRejected ==
    (/\ last.op \in {"read_reg", "write_reg", "upload", "start_inference",
                     "get_result", "infer", "reset"}
     /\ last.h # NULL
     /\ heap[last.h] = "free") =>
        /\ last.ret = KC705_INVALID_PARAM
        /\ "uaf_read" \notin last.ub
        /\ last.log = <<>>

\* C33: kc705_infer with a NULL result pointer, on an open handle and with a
\* buffer, returns KC705_INVALID_PARAM and has no side effect on the device:
\* it writes no image data, does not write IMAGE_SIZE and does not write
\* CONTROL.
C33_NullResultNoSideEffects ==
    (/\ last.op = "infer"
     /\ OnLiveHandle
     /\ last.is_open
     /\ last.data # NULL
     /\ last.result = <<>>) =>
        /\ last.ret = KC705_INVALID_PARAM
        /\ UploadWrites(last.log) = {}
        /\ CtrlWrites(last.log) = {}

\* C34: kc705_upload_image of an accepted size reads only bytes [0, size) of
\* the caller's buffer, whether or not the size is a multiple of 4 and on
\* both transports; on the register transport it makes exactly
\* ceil(size / 4) word writes, at the offsets image-base + 0, 4, 8, ... in
\* ascending order.
C34_ReadsOnlyTheBuffer ==
    (/\ last.op = "upload"
     /\ OnLiveHandle
     /\ last.is_open
     /\ last.data # NULL
     /\ last.size <= UPLOAD_LIMIT) =>
        LET IsImageWord(e) == e[1] = "w" /\ e[2] >= KC705_IMAGE_BASE
            words == SelectSeq(last.log, IsImageWord)
        IN  /\ "buffer_overread" \notin last.ub
            /\ last.mem_base = NULL =>
                /\ Len(words) = (last.size + 3) \div 4
                /\ \A k \in DOMAIN words :
                        words[k][2] = KC705_IMAGE_BASE + 4 * (k - 1)

\* C36: kc705_get_result_nowait returns KC705_TIMEOUT only when the device
\* is open and not yet done: with a NULL handle, with a handle that is not
\* open, or when the status read fails, it returns KC705_INVALID_PARAM.
C36_NowaitTimeoutMeansBusy ==
    (/\ last.op = "get_result_nowait"
     /\ \/ last.h = NULL
        \/ ~last.is_open
        \/ last.reg_base = NULL) =>
        last.ret = KC705_INVALID_PARAM

\* C35: when the image file cannot be opened or holds fewer than 150528
\* bytes, kc705_load_image returns NULL and kc705_infer_file returns
\* KC705_ERROR, having accessed no register and no data window and having
\* left the result record as it was; and whenever kc705_infer_file returns,
\* after a load failure, a failed inference or a success, every image buffer
\* it got from malloc has been freed exactly once.
C35_LoadFailureIsClean ==
    (last.op = "infer_file") =>
        /\ last.file \in {"missing", "short", "short_nomem"} =>
            /\ last.ret = KC705_ERROR
            /\ last.log = <<>>
            /\ last.checks = 0
            /\ last.rec = last.result
            /\ last.ub = {}
        /\ ~crashed => last.frees = last.allocs

\* The same for the calls during which malloc returned a buffer.
C35_CleanWithMemory ==
    (last.op = "infer_file" /\ ~NoMemory(last.file)) =>
        /\ last.file \in {"missing", "short"} =>
            /\ last.ret = KC705_ERROR
            /\ last.log = <<>>
            /\ last.checks = 0
            /\ last.rec = last.result
            /\ last.ub = {}
        /\ ~crashed => last.frees = last.allocs

\* C32: a result is never stale.  Against a device that raises DONE when it
\* finishes a transaction and clears it only when it takes up the next
\* START, a kc705_infer call that returns KC705_SUCCESS returns the result
\* words of the transaction its own START began: the DONE that ended its
\* polling was raised for that START, also when the call follows another
\* kc705_infer on the same handle.
C32_ResultNeverStale ==
    (/\ last.op = "infer"
     /\ OnLiveHandle
     /\ last.ub = {}
     /\ last.ret = KC705_SUCCESS) =>
        /\ txn[LastDevice].done_for = txn[LastDevice].starts
        /\ last.words = TxnWords(txn[LastDevice].starts)

\* In SpecStale DONE shows in STATUS exactly when txn names its transaction.
StatusFollowsDevice ==
    last.ub = {} => \A d \in DevIdx : IsDone(TRUE, regs[d][REG_STATUS]) <=> txn[d].done_for # 0

====
